---- MODULE Spec2Model ----
(***************************************************************************)
(* Verification model of the two stream routines of the repository:        *)
(*   - AWSCostEstimatorAgent.estimate_costs_stream                          *)
(*       (01_code_interpreter/cost_estimator_agent/cost_estimator_agent.py) *)
(*     which turns cumulative text snapshots into deltas;                   *)
(*   - ObservabilityTester._process_response                                *)
(*       (05_observability/test_observability.py)                           *)
(*     whose event-stream branch decodes a chunked UTF-8 byte stream.       *)
(* Texts of the first routine are sequences of one-character strings;      *)
(* bytes are integers 0..255 and decoded text is a sequence of code points. *)
(***************************************************************************)
EXTENDS Integers, Sequences, FiniteSets, TLC

VARIABLES
    \* ---- estimate_costs_stream ----
    spc,              \* position: "idle", "start", "stream", "done"
    inputs,           \* events agent_stream has delivered so far, in order
    previous_output,  \* the local previous_output
    out,              \* events yielded to the caller so far, in order
    ended,            \* how the run ended: "no", "normal", "raised", "setup"
    \* ---- _process_response, event-stream branch ----
    dpc,              \* position: "idle", "next_line", "decode", "done"
    resp_lines,       \* the lines response["response"].iter_lines() has yielded
    parts_left,       \* pieces the modelled response may still deliver
    byte_buffer,      \* the local byte_buffer
    content,          \* the local content list (decoded fragments)
    attempts,         \* decode attempts made for the line being processed
    \* ---- test_streaming ----
    test_returned,    \* whether test_streaming has returned
    test_result,      \* the value it returned
    \* ---- invoke_agent ----
    ipc,              \* position: "idle", "call", "process", "except", "returned", "raised"
    content_type,     \* response["contentType"]: media type and parameters, <<>> if absent
    exc,              \* the exception raised inside the try block, "none" if none
    result,           \* the dict invoke_agent returned
    \* ---- two estimate_costs_stream runs in one event loop ----
    r_inst,           \* the agent instance (self) each run is called on
    r_pc,             \* position of each run: "idle", "start", "stream", "done"
    r_inputs,         \* events each run's agent_stream has delivered
    r_prev,           \* each run's local previous_output
    r_out,            \* events each run has yielded
    \* ---- runs of estimate_costs / estimate_costs_stream on one agent instance ----
    code_interpreter, \* self.code_interpreter: 0 for None, else the session object
    ci_assigned,      \* session objects that were assigned to self.code_interpreter
    ci_started,       \* session objects whose start() succeeded
    ci_stop_called,   \* session objects on which stop() was called
    l_pc,             \* position of each run: "idle", "setup_ci", "setup_pricing",
                      \*   "create_agent", "body", "cleanup", "finish", "ended"
    l_kind,           \* "sync" for estimate_costs, "stream" for estimate_costs_stream
    l_exc,            \* exception leaving the with block: "none", "Exception", "GeneratorExit"
    l_cleaned,        \* whether cleanup() has run in the run
    l_ret,            \* how the run ended
    l_calls,          \* execute_cost_calculation calls the agent made in the run
    tool_ret,         \* what the last execute_cost_calculation call returned
    \* ---- AgentWithMemory.__init__ ----
    m_pc,             \* position: "idle", "list", "found", "create", "rest", "done"
    m_account,        \* the memories of the account as list_memories returns them
    force_recreate,   \* the force_recreate argument
    existing_memory,  \* the local existing_memory, NoMemory for None
    memory_id,        \* self.memory_id, <<>> for None
    m_deleted,        \* ids passed to delete_memory_and_wait that was awaited
    m_created,        \* memories created by create_memory_and_wait
    m_failed,         \* whether the except clause was reached
    \* ---- lambda_handler ----
    h_pc,             \* position: "idle", "start", "validate", "convert", "send", "sent", "except", "returned"
    h_context,        \* the Lambda context: its kind and the tool name in client_context.custom
    h_event,          \* the event: tool_name, markdown_text, email_address, whether json.dumps accepts it
    tool_name,        \* the local tool_name
    h_sent,           \* emails SES accepted
    h_exc,            \* whether an exception reached the except clause of lambda_handler
    h_response,       \* the statusCode returned, 0 before the return
    \* ---- AgentPreparer.create_agentcore_role ----
    g_pc,             \* position: "idle", "begin", "get", "create", "put", "return", "done"
    g_agent,          \* self.agent_name of the current call
    iam_role,         \* for each agent name, whether IAM holds its role
    iam_policy,       \* for each agent name, the inline execution policy of its
                      \*   role in IAM: "none", "old", "current"
    role_exists,      \* the local role_exists
    g_put,            \* whether put_role_policy succeeded in the current call
    g_ret,            \* what the current call returned: "none", "info", "empty"
    g_calls,          \* calls of create_agentcore_role begun
    \* ---- setup_oauth2_credential_provider (03_identity/setup_inbound_authorizer.py) ----
    o_pc,             \* position in setup_oauth2_credential_provider
    o_force,          \* the argument force
    o_config,         \* top-level keys of config as loaded at the start of the call
    o_user_pool_id,   \* config['cognito'].get('user_pool_id'), "" when missing or empty
    o_file,           \* top-level keys of the saved inbound_authorizer.json
    has_cognito,      \* the local has_cognito
    has_provider,     \* the local has_provider
    discovery_url,    \* whether the local discovery_url has been assigned
    cloud_provider,   \* the credential provider of that name in the account: "none", "old", "new"
    cloud_pools,      \* the Cognito user pools (with client and domain) in the account
    o_ret,            \* outcome of the call: "none", "config", "None", "raised"
    \* ---- setup_gateway (04_gateway/setup_outbound_gateway.py) ----
    w_pc,             \* position in setup_gateway
    w_force,          \* the argument force
    w_config,         \* top-level keys of config as loaded at the start of the call
    w_file,           \* top-level keys of the saved outbound_gateway.json
    has_gateway,      \* the local has_gateway
    identity_file,    \* whether ../03_identity/inbound_authorizer.json exists
    cloud_gateways,   \* the gateways in the account
    cloud_targets,    \* the gateway targets in the account
    w_ret,            \* outcome of the call: "none", "config", "raised"
    \* ---- wait_for_oidc_endpoint (03_identity/setup_inbound_authorizer.py) ----
    k_pc,             \* position in wait_for_oidc_endpoint
    max_wait,         \* the argument max_wait
    interval,         \* the argument interval
    k_elapsed,        \* time.time() - start_time
    attempt,          \* the local attempt: number of the current poll
    k_status,         \* what the latest requests.get produced
    k_ret             \* outcome of the call: "none", "True", "False", "raised"

streamVars == <<spc, inputs, previous_output, out, ended>>
decodeVars == <<dpc, resp_lines, parts_left, byte_buffer, content, attempts>>
testVars == <<test_returned, test_result>>
vars == <<spc, inputs, previous_output, out, ended,
          dpc, resp_lines, parts_left, byte_buffer, content, attempts,
          test_returned, test_result,
          ipc, content_type, exc, result,
          r_inst, r_pc, r_inputs, r_prev, r_out,
          code_interpreter, ci_assigned, ci_started, ci_stop_called,
          l_pc, l_kind, l_exc, l_cleaned, l_ret, l_calls, tool_ret,
          m_pc, m_account, force_recreate, existing_memory, memory_id,
          m_deleted, m_created, m_failed,
          h_pc, h_context, h_event, tool_name, h_sent, h_exc, h_response,
          g_pc, g_agent, iam_role, iam_policy, role_exists, g_put, g_ret, g_calls,
          o_pc, o_force, o_config, o_user_pool_id, o_file, has_cognito, has_provider, discovery_url, cloud_provider, cloud_pools, o_ret,
          w_pc, w_force, w_config, w_file, has_gateway, identity_file, cloud_gateways, cloud_targets, w_ret,
          k_pc, max_wait, interval, k_elapsed, attempt, k_status, k_ret>>
invokeVars == <<ipc, content_type, exc, result>>
runsVars == <<r_inst, r_pc, r_inputs, r_prev, r_out>>
lifeVars == <<code_interpreter, ci_assigned, ci_started, ci_stop_called,
              l_pc, l_kind, l_exc, l_cleaned, l_ret, l_calls, tool_ret>>
memoryVars == <<m_pc, m_account, force_recreate, existing_memory, memory_id,
                m_deleted, m_created, m_failed>>

handlerVars == <<h_pc, h_context, h_event, tool_name, h_sent, h_exc, h_response>>
roleVars == <<g_pc, g_agent, iam_role, iam_policy, role_exists, g_put, g_ret, g_calls>>
providerVars == <<o_pc, o_force, o_config, o_user_pool_id, o_file, has_cognito, has_provider, discovery_url, cloud_provider, cloud_pools, o_ret>>
gatewayVars == <<w_pc, w_force, w_config, w_file, has_gateway, identity_file, cloud_gateways, cloud_targets, w_ret>>
oidcVars == <<k_pc, max_wait, interval, k_elapsed, attempt, k_status, k_ret>>
\* what the actions of one routine leave alone
outsideStream == <<decodeVars, testVars, invokeVars, runsVars, lifeVars, memoryVars, handlerVars, roleVars, providerVars, gatewayVars, oidcVars>>
outsideDecode == <<streamVars, testVars, invokeVars, runsVars, lifeVars, memoryVars, handlerVars, roleVars, providerVars, gatewayVars, oidcVars>>
outsideTest == <<streamVars, decodeVars, invokeVars, runsVars, lifeVars, memoryVars, handlerVars, roleVars, providerVars, gatewayVars, oidcVars>>
outsideInvoke == <<streamVars, testVars, runsVars, lifeVars, memoryVars, handlerVars, roleVars, providerVars, gatewayVars, oidcVars>>
outsideRuns == <<streamVars, decodeVars, testVars, invokeVars, lifeVars, memoryVars, handlerVars, roleVars, providerVars, gatewayVars, oidcVars>>
outsideMemory == <<streamVars, decodeVars, testVars, invokeVars, runsVars, lifeVars, handlerVars, roleVars, providerVars, gatewayVars, oidcVars>>
outsideLife == <<streamVars, decodeVars, testVars, invokeVars, runsVars, memoryVars, handlerVars, roleVars, providerVars, gatewayVars, oidcVars>>
outsideHandler == <<streamVars, decodeVars, testVars, invokeVars, runsVars, lifeVars, memoryVars, roleVars, providerVars, gatewayVars, oidcVars>>
outsideRole == <<streamVars, decodeVars, testVars, invokeVars, runsVars, lifeVars, memoryVars, handlerVars, providerVars, gatewayVars, oidcVars>>
outsideProvider == <<streamVars, decodeVars, testVars, invokeVars, runsVars, lifeVars, memoryVars, handlerVars, roleVars, gatewayVars, oidcVars>>
outsideGateway == <<streamVars, decodeVars, testVars, invokeVars, runsVars, lifeVars, memoryVars, handlerVars, roleVars, providerVars, oidcVars>>
outsideOidc == <<streamVars, decodeVars, testVars, invokeVars, runsVars, lifeVars, memoryVars, handlerVars, roleVars, providerVars, gatewayVars>>

(***************************************************************************)
(* Bounds of the model.                                                    *)
(***************************************************************************)
MaxEvents == 3
MaxTextLen == 2
MaxParts == 3
MaxLines == 2
MaxRunEvents == 2
MaxToolCalls == 1
MaxToolEvents == 2
MaxMemories == 2
MaxRoleCalls == 2
MaxWait == 4

(***************************************************************************)
(* Generic sequence helpers (Python str / bytes operations).               *)
(***************************************************************************)
\* s.startswith(p)
StartsWith(s, p) ==
    /\ Len(p) <= Len(s)
    /\ SubSeq(s, 1, Len(p)) = p

\* s[n:]
SliceFrom(s, n) == SubSeq(s, n + 1, Len(s))

\* s[:n]
SliceTo(s, n) == SubSeq(s, 1, n)

\* ''.join(parts)
RECURSIVE Join(_)
Join(parts) ==
    IF parts = <<>> THEN <<>> ELSE Head(parts) \o Join(Tail(parts))

\* all sequences over S of length 0..n
RECURSIVE SeqsUpTo(_, _)
SeqsUpTo(S, n) ==
    IF n = 0 THEN {<<>>}
    ELSE LET shorter == SeqsUpTo(S, n - 1)
         IN  shorter \cup {Append(s, x) : s \in shorter, x \in S}

(***************************************************************************)
(* estimate_costs_stream                                                   *)
(***************************************************************************)
Chars == {"a", "1"}
Texts == SeqsUpTo(Chars, MaxTextLen)
Nums == {1, 11}

\* value stored under the "data" key: a str or an int
StrVal(t) == [kind |-> "str", text |-> t, num |-> 0]
NumVal(n) == [kind |-> "int", text |-> <<>>, num |-> n]
NoVal == [kind |-> "none", text |-> <<>>, num |-> 0]
DataVals == {StrVal(t) : t \in Texts} \cup {NumVal(n) : n \in Nums}

Digit(d) == <<"0", "1", "2", "3", "4", "5", "6", "7", "8", "9">>[d + 1]

RECURSIVE Digits(_)
Digits(n) == IF n < 10 THEN <<Digit(n)>> ELSE Append(Digits(n \div 10), Digit(n % 10))

\* str(event["data"])
Str(d) == IF d.kind = "str" THEN d.text ELSE Digits(d.num)

\* an event dict: whether it has the "data" key, that value, and its other keys
DataEvent(d) == [hasData |-> TRUE, data |-> d, keys |-> "none"]
OtherEvent(k) == [hasData |-> FALSE, data |-> NoVal, keys |-> k]

\* messages of the exceptions the agent stream or the component setup may raise
ErrMsgs == {<<"x">>, <<"y">>}

\* {"error": True, "data": f"... failed: {e}\n\nStacktrace:\n{traceback...}"}
ErrorEvent(e) ==
    [hasData |-> TRUE, data |-> StrVal(<<"F">> \o e \o <<"T">>), keys |-> "error"]

\* current_chunk[len(previous_output):]
DeltaContent_skew(cur, prev) == SliceFrom(cur, Len(prev) + 1)
DeltaContent(cur, prev) == SliceFrom(cur, Len(prev))

\* body of `if "data" in event:`: the new previous_output and what is yielded
DataStep_noreset(prev, cur) ==
    IF StartsWith(cur, prev)
    THEN LET delta_content == DeltaContent(cur, prev)
         IN  IF delta_content # <<>>
             THEN [prev |-> cur, emit |-> <<DataEvent(StrVal(delta_content))>>]
             ELSE [prev |-> prev, emit |-> <<>>]
    ELSE [prev |-> prev, emit |-> <<DataEvent(StrVal(cur))>>]
DataStep_keepprev(prev, cur) ==
    IF StartsWith(cur, prev)
    THEN LET delta_content == DeltaContent(cur, prev)
         IN  IF delta_content # <<>>
             THEN [prev |-> prev, emit |-> <<DataEvent(StrVal(delta_content))>>]
             ELSE [prev |-> prev, emit |-> <<>>]
    ELSE [prev |-> cur, emit |-> <<DataEvent(StrVal(cur))>>]
DataStep_echo(prev, cur) ==
    IF StartsWith(cur, prev)
    THEN [prev |-> cur, emit |-> <<DataEvent(StrVal(DeltaContent(cur, prev)))>>]
    ELSE [prev |-> cur, emit |-> <<DataEvent(StrVal(cur))>>]
DataStep(prev, cur) ==
    IF StartsWith(cur, prev)
    THEN LET delta_content == DeltaContent(cur, prev)
         IN  IF delta_content # <<>>
             THEN [prev |-> cur, emit |-> <<DataEvent(StrVal(delta_content))>>]
             ELSE [prev |-> prev, emit |-> <<>>]
    ELSE [prev |-> cur, emit |-> <<DataEvent(StrVal(cur))>>]

\* entering `with self._estimation_agent() as agent:` and reaching the loop
StreamStart ==
    /\ spc = "start"
    /\ spc' = "stream"
    /\ previous_output' = <<>>
    /\ UNCHANGED <<inputs, out, ended>>
    /\ UNCHANGED outsideStream

\* the component setup raises: the except clause yields the error event
StreamSetupFail ==
    /\ spc = "start"
    /\ \E e \in ErrMsgs : out' = Append(out, ErrorEvent(e))
    /\ spc' = "done"
    /\ ended' = "setup"
    /\ UNCHANGED <<inputs, previous_output>>
    /\ UNCHANGED outsideStream

\* one iteration of `async for event in agent_stream` with "data" in event
StreamData_prepend ==
    /\ spc = "stream"
    /\ Len(inputs) < MaxEvents
    /\ \E d \in DataVals :
          LET r == DataStep(previous_output, Str(d))
          IN  /\ inputs' = Append(inputs, DataEvent(d))
              /\ previous_output' = r.prev
              /\ out' = r.emit \o out
    /\ UNCHANGED <<spc, ended>>
    /\ UNCHANGED outsideStream
StreamData ==
    /\ spc = "stream"
    /\ Len(inputs) < MaxEvents
    /\ \E d \in DataVals :
          LET r == DataStep(previous_output, Str(d))
          IN  /\ inputs' = Append(inputs, DataEvent(d))
              /\ previous_output' = r.prev
              /\ out' = out \o r.emit
    /\ UNCHANGED <<spc, ended>>
    /\ UNCHANGED outsideStream

\* one iteration with no "data" key: `yield event`
StreamPassthrough_reset ==
    /\ spc = "stream"
    /\ Len(inputs) < MaxEvents
    /\ \E k \in {"meta", "error"} :
          /\ inputs' = Append(inputs, OtherEvent(k))
          /\ out' = Append(out, OtherEvent(k))
    /\ previous_output' = <<>>
    /\ UNCHANGED <<spc, ended>>
    /\ UNCHANGED outsideStream
StreamPassthrough ==
    /\ spc = "stream"
    /\ Len(inputs) < MaxEvents
    /\ \E k \in {"meta", "error"} :
          /\ inputs' = Append(inputs, OtherEvent(k))
          /\ out' = Append(out, OtherEvent(k))
    /\ UNCHANGED <<previous_output, spc, ended>>
    /\ UNCHANGED outsideStream

\* agent_stream raises: `except Exception as e:` yields one error event
StreamUpstreamRaise_swallow ==
    /\ spc = "stream"
    /\ spc' = "done"
    /\ ended' = "raised"
    /\ UNCHANGED <<inputs, previous_output, out>>
    /\ UNCHANGED outsideStream
StreamUpstreamRaise ==
    /\ spc = "stream"
    /\ \E e \in ErrMsgs : out' = Append(out, ErrorEvent(e))
    /\ spc' = "done"
    /\ ended' = "raised"
    /\ UNCHANGED <<inputs, previous_output>>
    /\ UNCHANGED outsideStream

\* agent_stream is exhausted: the generator returns
StreamUpstreamEnd ==
    /\ spc = "stream"
    /\ spc' = "done"
    /\ ended' = "normal"
    /\ UNCHANGED <<inputs, previous_output, out>>
    /\ UNCHANGED outsideStream

DecodeIdle ==
    /\ dpc = "idle"
    /\ resp_lines = <<>>
    /\ parts_left = 0
    /\ byte_buffer = <<>>
    /\ content = <<>>
    /\ attempts = 0

TestIdle ==
    /\ test_returned = FALSE
    /\ test_result = FALSE

\* the dict invoke_agent returns; NoResult before it has returned
NoResult == [status |-> "none", result |-> <<>>, error |-> "none"]

InvokeIdle ==
    /\ ipc = "idle"
    /\ content_type = <<>>
    /\ exc = "none"
    /\ result = NoResult

\* the two concurrent runs
Runs == {1, 2}

RunsIdle ==
    /\ r_inst = [r \in Runs |-> r]
    /\ r_pc = [r \in Runs |-> "idle"]
    /\ r_inputs = [r \in Runs |-> <<>>]
    /\ r_prev = [r \in Runs |-> <<>>]
    /\ r_out = [r \in Runs |-> <<>>]

\* what execute_cost_calculation returned: nothing yet, a str, or None
NoCall == [kind |-> "nocall", text |-> <<>>]
StrRet(t) == [kind |-> "str", text |-> t]
NoneRet == [kind |-> "None", text |-> <<>>]

\* a memory summary: its name, and its id (also under "memoryId"), which the
\* service forms from the name and a suffix; NoMemory stands for None
Memory(name, suffix) == [name |-> name, id |-> name \o <<"-", suffix>>]
NoMemory == [name |-> <<>>, id |-> <<>>]

MemoryIdle ==
    /\ m_pc = "idle"
    /\ m_account = <<>>
    /\ force_recreate = FALSE
    /\ existing_memory = NoMemory
    /\ memory_id = <<>>
    /\ m_deleted = {}
    /\ m_created = <<>>
    /\ m_failed = FALSE

\* a tool name as the parts between "___" separators
NoContext == [kind |-> "none", name |-> <<"">>]

HandlerIdle ==
    /\ h_pc = "idle"
    /\ h_context = NoContext
    /\ h_event = [tool_name |-> <<"">>, markdown_text |-> <<>>, email_address |-> <<>>,
                  serializable |-> TRUE]
    /\ tool_name = <<"">>
    /\ h_sent = 0
    /\ h_exc = FALSE
    /\ h_response = 0

ProviderIdle ==
    /\ o_pc = "idle"
    /\ o_force = FALSE
    /\ o_config = {}
    /\ o_user_pool_id = ""
    /\ o_file = {}
    /\ has_cognito = FALSE
    /\ has_provider = FALSE
    /\ discovery_url = FALSE
    /\ cloud_provider = "none"
    /\ cloud_pools = {}
    /\ o_ret = "none"

GatewayIdle ==
    /\ w_pc = "idle"
    /\ w_force = FALSE
    /\ w_config = {}
    /\ w_file = {}
    /\ has_gateway = FALSE
    /\ identity_file = FALSE
    /\ cloud_gateways = {}
    /\ cloud_targets = {}
    /\ w_ret = "none"

OidcIdle ==
    /\ k_pc = "idle"
    /\ max_wait = 0
    /\ interval = 0
    /\ k_elapsed = 0
    /\ attempt = 0
    /\ k_status = "none"
    /\ k_ret = "none"

\* the agents whose roles the account may hold: AgentCoreRole-<agent_name>
AgentNames == {"cost_estimator_agent", "other_agent"}

RoleIdle ==
    /\ g_pc = "idle"
    /\ g_agent = "cost_estimator_agent"
    /\ iam_role = [a \in AgentNames |-> FALSE]
    /\ iam_policy = [a \in AgentNames |-> "none"]
    /\ role_exists = FALSE
    /\ g_put = FALSE
    /\ g_ret = "none"
    /\ g_calls = 0

\* __init__: self.code_interpreter = None, and no run has begun
LifeIdle ==
    /\ code_interpreter = 0
    /\ ci_assigned = {}
    /\ ci_started = {}
    /\ ci_stop_called = {}
    /\ l_pc = [r \in Runs |-> "idle"]
    /\ l_kind = [r \in Runs |-> "sync"]
    /\ l_exc = [r \in Runs |-> "none"]
    /\ l_cleaned = [r \in Runs |-> FALSE]
    /\ l_ret = [r \in Runs |-> "none"]
    /\ l_calls = [r \in Runs |-> 0]
    /\ tool_ret = NoCall

InitStream ==
    /\ spc = "start"
    /\ inputs = <<>>
    /\ previous_output = <<>>
    /\ out = <<>>
    /\ ended = "no"
    /\ DecodeIdle
    /\ TestIdle
    /\ InvokeIdle
    /\ RunsIdle
    /\ LifeIdle
    /\ OidcIdle
    /\ GatewayIdle
    /\ ProviderIdle
    /\ RoleIdle
    /\ HandlerIdle
    /\ MemoryIdle

NextStream ==
    \/ StreamStart
    \/ StreamSetupFail
    \/ StreamData
    \/ StreamPassthrough
    \/ StreamUpstreamRaise
    \/ StreamUpstreamEnd

SpecStream == InitStream /\ [][NextStream]_vars

(***************************************************************************)
(* test_streaming (01_code_interpreter/test_cost_estimator_agent.py), the  *)
(* consumer of estimate_costs_stream.                                      *)
(***************************************************************************)
\* the `async for event in agent.estimate_costs_stream(...)` loop and the
\* return after it, over the events the stream yields
RECURSIVE TestStreamingLoop(_, _)
TestStreamingLoop(events, total_length) ==
    IF events = <<>>
    THEN total_length > 0
    ELSE LET event == Head(events)
         IN  IF event.hasData
             THEN TestStreamingLoop(Tail(events), total_length + Len(Str(event.data)))
             ELSE IF event.keys = "error"
                  THEN FALSE
                  ELSE TestStreamingLoop(Tail(events), total_length)

\* test_streaming run against a stream that has ended
TestStreaming ==
    /\ spc = "done"
    /\ ~test_returned
    /\ test_returned' = TRUE
    /\ test_result' = TestStreamingLoop(out, 0)
    /\ UNCHANGED outsideTest

NextTestStreaming ==
    \/ NextStream
    \/ TestStreaming

SpecTestStreaming == InitStream /\ [][NextTestStreaming]_vars

(***************************************************************************)
(* Properties of estimate_costs_stream.                                    *)
(***************************************************************************)
IsData(ev) == ev.hasData
IsDelta(ev) == ev.hasData /\ ev.keys = "none"
IsErrorMarker(ev) == ev.hasData /\ ev.keys = "error"

RECURSIVE TextsOf(_)
TextsOf(evs) ==
    IF evs = <<>> THEN <<>> ELSE <<Str(Head(evs).data)>> \o TextsOf(Tail(evs))

\* the snapshots received so far, as str(event["data"])
Snapshots == TextsOf(SelectSeq(inputs, IsData))
\* the texts of the delta events yielded so far
DeltaTexts == TextsOf(SelectSeq(out, IsDelta))

IsPrefixChain(ts) == \A i \in 2..Len(ts) : StartsWith(ts[i], ts[i - 1])

\* the outputs the loop body produces for a list of events, from previous_output = prev
RECURSIVE Transformed(_, _)
Transformed(prev, evs) ==
    IF evs = <<>> THEN <<>>
    ELSE LET ev == Head(evs)
         IN  IF ev.hasData
             THEN LET r == DataStep(prev, Str(ev.data))
                  IN  r.emit \o Transformed(r.prev, Tail(evs))
             ELSE <<ev>> \o Transformed(prev, Tail(evs))

\* length of the longest common prefix of s and t
RECURSIVE CommonPrefixLen(_, _)
CommonPrefixLen(s, t) ==
    IF s = <<>> \/ t = <<>> \/ Head(s) # Head(t) THEN 0
    ELSE 1 + CommonPrefixLen(Tail(s), Tail(t))

\* the step just taken consumed a Data event
TookData == /\ spc = "stream"
            /\ Len(inputs') = Len(inputs) + 1
            /\ inputs'[Len(inputs')].hasData
\* the snapshot consumed by the step just taken
TakenText == Str(inputs'[Len(inputs')].data)
\* the events yielded by the step just taken
Yielded == SubSeq(out', Len(out) + 1, Len(out'))

\* C1: when every snapshot received so far starts with the one before it, the
\* concatenation of the delta texts yielded so far, in order, is the last snapshot.
C1_PrefixChainConcat ==
    (Snapshots # <<>> /\ IsPrefixChain(Snapshots))
        => Join(DeltaTexts) = Snapshots[Len(Snapshots)]

C1_Witness ==
    /\ Len(Snapshots) = 3
    /\ IsPrefixChain(Snapshots)
    /\ Len(Snapshots[1]) < Len(Snapshots[3])
    /\ Len(DeltaTexts) >= 2
    /\ Join(DeltaTexts) = Snapshots[3]

\* C3: every delta event yielded carries non-empty text (so an empty-string
\* snapshot yields no event, whatever previous_output is).
C3_DeltasNonEmpty ==
    \A i \in 1..Len(out) : IsDelta(out[i]) => Str(out[i].data) # <<>>

\* C4: if agent_stream raises after k events, the output is the transformed outputs
\* of those k events followed by exactly one error marker, and the run has ended;
\* if agent_stream ends normally the output holds no error marker.
C4_ErrorMarkerOnce ==
    /\ ended = "raised" =>
          /\ spc = "done"
          /\ ~ENABLED NextStream
          /\ \E e \in ErrMsgs : out = Transformed(<<>>, inputs) \o <<ErrorEvent(e)>>
          /\ Cardinality({i \in 1..Len(out) : IsErrorMarker(out[i])}) = 1
    /\ ended = "normal" =>
          /\ spc = "done"
          /\ ~ENABLED NextStream
          /\ out = Transformed(<<>>, inputs)
          /\ \A i \in 1..Len(out) : ~IsErrorMarker(out[i])

C4_Witness ==
    /\ ended = "raised"
    /\ Len(inputs) = 3
    /\ Len(out) = 3
    /\ IsDelta(out[1])
    /\ IsErrorMarker(out[3])

\* C5: no delta repeats text already yielded: when a snapshot shares a non-empty
\* common prefix with previous_output without extending it, the delta yielded for
\* it does not begin with that prefix again.
C5_NoDuplicatedText ==
    [][TookData =>
          LET n == CommonPrefixLen(TakenText, previous_output)
          IN  (n > 0 /\ ~StartsWith(TakenText, previous_output))
                 => \A i \in 1..Len(Yielded) :
                       ~StartsWith(Str(Yielded[i].data), SliceTo(TakenText, n))]_vars

\* C8: a snapshot that does not start with previous_output is yielded in full as
\* one delta and becomes previous_output; a snapshot that properly extends
\* previous_output yields only the extension.
C8_ResetEmitsFull ==
    [][TookData =>
          /\ ~StartsWith(TakenText, previous_output) =>
                /\ Yielded = <<DataEvent(StrVal(TakenText))>>
                /\ previous_output' = TakenText
          /\ (StartsWith(TakenText, previous_output) /\ TakenText # previous_output) =>
                /\ Yielded = <<DataEvent(StrVal(SliceFrom(TakenText, Len(previous_output))))>>
                /\ previous_output' = TakenText]_vars

\* a reset to a non-empty snapshot, then a snapshot extending it, yielded as the
\* extension alone
C8_Witness ==
    /\ Len(Snapshots) = 3
    /\ Len(inputs) = 3
    /\ Snapshots[1] # <<>>
    /\ Snapshots[2] # <<>>
    /\ ~StartsWith(Snapshots[2], Snapshots[1])
    /\ StartsWith(Snapshots[3], Snapshots[2])
    /\ DeltaTexts = <<Snapshots[1], Snapshots[2], SliceFrom(Snapshots[3], Len(Snapshots[2]))>>
    /\ Len(DeltaTexts[3]) = 1
    /\ previous_output = Snapshots[3]

\* C9: a snapshot identical to the Data snapshot received just before it yields
\* no event and leaves previous_output unchanged.
C9_DuplicateSuppressed ==
    [][(TookData /\ Snapshots # <<>> /\ TakenText = Snapshots[Len(Snapshots)])
          => (out' = out /\ previous_output' = previous_output)]_vars

C9_Witness ==
    /\ Len(Snapshots) = 3
    /\ Snapshots[1] # <<>>
    /\ Snapshots[2] = Snapshots[1]
    /\ Len(Snapshots[3]) > Len(Snapshots[2])
    /\ DeltaTexts = <<Snapshots[1], SliceFrom(Snapshots[3], Len(Snapshots[2]))>>

\* C10: a non-data event is yielded unchanged and leaves previous_output
\* unchanged, and the deltas yielded for the Data events are those of the same
\* Data events with the non-data events removed.
C10_PassthroughTransparent ==
    /\ DeltaTexts = TextsOf(Transformed(<<>>, SelectSeq(inputs, IsData)))
    /\ SelectSeq(out, LAMBDA ev : ~ev.hasData) = SelectSeq(inputs, LAMBDA ev : ~ev.hasData)
    /\ (Snapshots # <<>> /\ spc = "stream") => previous_output = Snapshots[Len(Snapshots)]

C10_Witness ==
    /\ Len(inputs) = 3
    /\ IsData(inputs[1]) /\ ~IsData(inputs[2]) /\ IsData(inputs[3])
    /\ Str(inputs[1].data) # <<>>
    /\ StartsWith(Str(inputs[3].data), Str(inputs[1].data))
    /\ out = <<DataEvent(StrVal(Str(inputs[1].data))), inputs[2],
               DataEvent(StrVal(SliceFrom(Str(inputs[3].data), Len(Str(inputs[1].data)))))>>

\* C11: each input event yields at most one output event, yielded in the step
\* that consumes it (before the next input is consumed), after everything
\* yielded before: the output is, in order, the loop body's output for each input.
C11_OneForOneInOrder ==
    [][Len(inputs') = Len(inputs) + 1 =>
          /\ Len(out') <= Len(out) + 1
          /\ SliceTo(out', Len(out)) = out
          /\ Yielded = Transformed(previous_output, <<inputs'[Len(inputs')]>>)
          /\ out' = Transformed(<<>>, inputs')]_vars

\* a data event, a suppressed duplicate, a non-data event and a delta, in order
C11_Witness ==
    /\ Len(inputs) = 3
    /\ IsData(inputs[1]) /\ IsData(inputs[2]) /\ ~IsData(inputs[3])
    /\ Str(inputs[1].data) # <<>>
    /\ Str(inputs[2].data) = Str(inputs[1].data)
    /\ out = <<DataEvent(StrVal(Str(inputs[1].data))), inputs[3]>>

AllEmptySnapshots ==
    \A i \in 1..Len(inputs) : inputs[i].hasData /\ Str(inputs[i].data) = <<>>

\* C12: an upstream that ends without an event yields nothing, and an upstream
\* of empty-string snapshots only yields no delta event.
C12_EmptyInEmptyOut ==
    /\ (ended = "normal" /\ inputs = <<>>) => out = <<>>
    /\ (spc \in {"stream", "done"} /\ ended # "setup" /\ AllEmptySnapshots)
          => DeltaTexts = <<>>

C12_Witness ==
    /\ ended = "normal"
    /\ Len(inputs) = 3
    /\ AllEmptySnapshots
    /\ out = <<>>

\* C18: test_streaming returns False whenever the stream held an error marker,
\* and True only for a stream without one whose deltas have positive total length.
C18_ErrorMarkerFailsTest ==
    test_returned =>
        /\ (\E i \in 1..Len(out) : IsErrorMarker(out[i])) => ~test_result
        /\ test_result =>
              /\ \A i \in 1..Len(out) : ~IsErrorMarker(out[i])
              /\ Len(Join(DeltaTexts)) > 0

(***************************************************************************)
(* bytes.decode('utf-8') (strict), as CPython implements it.               *)
(***************************************************************************)
\* number of bytes of the character a lead byte announces; 0: not a lead byte
SeqLenOf(b) ==
    IF b < 128 THEN 1
    ELSE IF b \in 194..223 THEN 2
    ELSE IF b \in 224..239 THEN 3
    ELSE IF b \in 240..244 THEN 4
    ELSE 0

\* whether b may follow lead as the j-th continuation byte
ContOk(lead, j, b) ==
    IF j > 1 THEN b \in 128..191
    ELSE IF lead = 224 THEN b \in 160..191
    ELSE IF lead = 237 THEN b \in 128..159
    ELSE IF lead = 240 THEN b \in 144..191
    ELSE IF lead = 244 THEN b \in 128..143
    ELSE b \in 128..191

\* the sequence starting at index i of buf (1-based): "ok" (complete and valid),
\* "incomplete" (valid so far, cut by the end of buf: unexpected end of data) or
\* "invalid" (invalid start byte, invalid continuation byte)
CharStatus(buf, i) ==
    LET n == SeqLenOf(buf[i])
        bad == {j \in 1..(n - 1) : i + j > Len(buf) \/ ~ContOk(buf[i], j, buf[i + j])}
    IN  IF n = 0 THEN "invalid"
        ELSE IF bad = {} THEN "ok"
        ELSE LET j == CHOOSE k \in bad : \A m \in bad : k <= m
             IN  IF i + j > Len(buf) THEN "incomplete" ELSE "invalid"

\* UnicodeDecodeError.start (0-based) of decoding buf from index i on; -1: no error
RECURSIVE ErrorStartFrom(_, _)
ErrorStartFrom(buf, i) ==
    IF i > Len(buf) THEN -1
    ELSE IF CharStatus(buf, i) = "ok" THEN ErrorStartFrom(buf, i + SeqLenOf(buf[i]))
    ELSE i - 1

ErrorStart(buf) == ErrorStartFrom(buf, 1)

\* the code point of the complete sequence at index i
CodePointAt(buf, i) ==
    LET n == SeqLenOf(buf[i])
    IN  IF n = 1 THEN buf[i]
        ELSE IF n = 2 THEN (buf[i] - 192) * 64 + (buf[i + 1] - 128)
        ELSE IF n = 3 THEN (buf[i] - 224) * 4096 + (buf[i + 1] - 128) * 64 + (buf[i + 2] - 128)
        ELSE (buf[i] - 240) * 262144 + (buf[i + 1] - 128) * 4096
                 + (buf[i + 2] - 128) * 64 + (buf[i + 3] - 128)

\* the text of a buffer that decodes without error
RECURSIVE DecodeFrom(_, _)
DecodeFrom(buf, i) ==
    IF i > Len(buf) THEN <<>>
    ELSE <<CodePointAt(buf, i)>> \o DecodeFrom(buf, i + SeqLenOf(buf[i]))

Decode(buf) == DecodeFrom(buf, 1)

(***************************************************************************)
(* _process_response, branch "text/event-stream" in contentType            *)
(***************************************************************************)
\* "data: " (ASCII, so the same as bytes and as code points)
Marker == <<100, 97, 116, 97, 58, 32>>
MarkerLen == 6

\* if decoded.startswith("data: "): decoded = decoded[6:]
RECURSIVE StripMarker_all(_)
StripMarker_all(decoded) ==
    IF StartsWith(decoded, Marker)
    THEN StripMarker_all(SliceFrom(decoded, MarkerLen))
    ELSE decoded
StripMarker(decoded) ==
    IF StartsWith(decoded, Marker) THEN SliceFrom(decoded, MarkerLen) ELSE decoded

\* pieces the modelled lines are built from: 'a', the lead byte C3 of a 2-byte
\* character, the lead byte E3 of a 3-byte character, the continuation byte 81,
\* the invalid byte FF, and the marker
Pieces == {<<97>>, <<195>>, <<227>>, <<129>>, <<255>>, Marker}

\* the byte strings made of exactly n pieces
RECURSIVE StringsOf(_)
StringsOf(n) ==
    IF n = 0 THEN {<<>>} ELSE {s \o p : s \in StringsOf(n - 1), p \in Pieces}

LinesOf == [n \in 0..MaxParts |-> StringsOf(n)]

\* `for line in ...iter_lines()` yields a falsy line: `if line:` skips it
SkipEmptyLine ==
    /\ dpc = "next_line"
    /\ Len(resp_lines) < MaxLines
    /\ resp_lines' = Append(resp_lines, <<>>)
    /\ UNCHANGED <<dpc, parts_left, byte_buffer, content, attempts>>
    /\ UNCHANGED outsideDecode

\* the iterator yields a line: `byte_buffer += line`, the while loop is entered
AppendLine ==
    /\ dpc = "next_line"
    /\ Len(resp_lines) < MaxLines
    /\ \E n \in 1..parts_left :
          \E line \in LinesOf[n] :
             /\ resp_lines' = Append(resp_lines, line)
             /\ byte_buffer' = byte_buffer \o line
             /\ parts_left' = parts_left - n
    /\ attempts' = 0
    /\ dpc' = "decode"
    /\ UNCHANGED content
    /\ UNCHANGED outsideDecode

\* the try body: the whole buffer decodes
DecodeWhole ==
    /\ dpc = "decode"
    /\ ErrorStart(byte_buffer) = -1
    /\ content' = Append(content, StripMarker(Decode(byte_buffer)))
    /\ byte_buffer' = <<>>
    /\ attempts' = attempts + 1
    /\ dpc' = "next_line"
    /\ UNCHANGED <<resp_lines, parts_left>>
    /\ UNCHANGED outsideDecode

\* except UnicodeDecodeError with e.start == 0: byte_buffer = byte_buffer[1:],
\* then `while byte_buffer` is tested again
DropFirstByte_stuck ==
    /\ dpc = "decode"
    /\ ErrorStart(byte_buffer) = 0
    /\ byte_buffer' = byte_buffer
    /\ attempts' = attempts + 1
    /\ dpc' = "decode"
    /\ UNCHANGED <<resp_lines, parts_left, content>>
    /\ UNCHANGED outsideDecode
DropFirstByte ==
    /\ dpc = "decode"
    /\ ErrorStart(byte_buffer) = 0
    /\ byte_buffer' = SliceFrom(byte_buffer, 1)
    /\ attempts' = attempts + 1
    /\ dpc' = IF byte_buffer' = <<>> THEN "next_line" ELSE "decode"
    /\ UNCHANGED <<resp_lines, parts_left, content>>
    /\ UNCHANGED outsideDecode

\* except UnicodeDecodeError with e.start > 0: the valid part is decoded and
\* appended, the rest is kept, break
KeepRest ==
    /\ dpc = "decode"
    /\ ErrorStart(byte_buffer) > 0
    /\ LET start == ErrorStart(byte_buffer)
           valid_part == SliceTo(byte_buffer, start)
       IN  /\ content' = IF valid_part # <<>>
                         THEN Append(content, StripMarker(Decode(valid_part)))
                         ELSE content
           /\ byte_buffer' = SliceFrom(byte_buffer, start)
    /\ attempts' = attempts + 1
    /\ dpc' = "next_line"
    /\ UNCHANGED <<resp_lines, parts_left>>
    /\ UNCHANGED outsideDecode

\* the iterator is exhausted: return ''.join(content)
EndOfLines ==
    /\ dpc = "next_line"
    /\ dpc' = "done"
    /\ UNCHANGED <<resp_lines, parts_left, byte_buffer, content, attempts>>
    /\ UNCHANGED outsideDecode

\* the value _process_response returns
Returned == Join(content)

StreamIdle ==
    /\ spc = "idle"
    /\ inputs = <<>>
    /\ previous_output = <<>>
    /\ out = <<>>
    /\ ended = "no"

InitDecode ==
    /\ TestIdle
    /\ InvokeIdle
    /\ RunsIdle
    /\ LifeIdle
    /\ OidcIdle
    /\ GatewayIdle
    /\ ProviderIdle
    /\ RoleIdle
    /\ HandlerIdle
    /\ MemoryIdle
    /\ dpc = "next_line"
    /\ resp_lines = <<>>
    /\ parts_left = MaxParts
    /\ byte_buffer = <<>>
    /\ content = <<>>
    /\ attempts = 0
    /\ StreamIdle

NextDecode ==
    \/ SkipEmptyLine
    \/ AppendLine
    \/ DecodeWhole
    \/ DropFirstByte
    \/ KeepRest
    \/ EndOfLines

SpecDecode == InitDecode /\ [][NextDecode]_vars

(***************************************************************************)
(* invoke_agent and the other branches of _process_response.               *)
(***************************************************************************)
ContentTypes ==
    { <<"text/event-stream">>, <<"text/event-stream", "charset=utf-8">>,
      <<"application/json">>, <<"application/json", "charset=utf-8">>,
      <<"text/plain">>, <<>> }

\* "text/event-stream" in response.get("contentType", "")
IsEventStream(ct) == \E i \in 1..Len(ct) : ct[i] = "text/event-stream"

\* response.get("contentType") == "application/json"
IsJson(ct) == ct = <<"application/json">>

SuccessResult(text) == [status |-> "success", result |-> text, error |-> "none"]
ErrorResult(e) == [status |-> "error", result |-> <<>>, error |-> e]

\* self.client.invoke_agent_runtime(...) raises
InvokeRuntimeRaise ==
    /\ ipc = "call"
    /\ exc' = "ClientError"
    /\ ipc' = "except"
    /\ UNCHANGED <<content_type, result>>
    /\ UNCHANGED decodeVars
    /\ UNCHANGED outsideInvoke

\* self.client.invoke_agent_runtime(...) returns a response and
\* _process_response picks its branch
InvokeRuntimeReturn ==
    /\ ipc = "call"
    /\ \E ct \in ContentTypes :
          /\ content_type' = ct
          /\ dpc' = IF IsEventStream(ct) THEN "next_line" ELSE "join"
    /\ parts_left' = MaxParts
    /\ ipc' = "process"
    /\ UNCHANGED <<exc, result>>
    /\ UNCHANGED <<resp_lines, byte_buffer, content, attempts>>
    /\ UNCHANGED outsideInvoke

\* join(response.get("response", [])) takes the next chunk of the body
JoinChunk ==
    /\ dpc = "join"
    /\ Len(resp_lines) < MaxLines
    /\ \E n \in 0..parts_left :
          \E chunk \in LinesOf[n] :
             /\ resp_lines' = Append(resp_lines, chunk)
             /\ parts_left' = parts_left - n
    /\ UNCHANGED <<dpc, byte_buffer, content, attempts>>
    /\ UNCHANGED outsideDecode

\* the JSON branch once the body is exhausted:
\* all_chunks = b''.join(...); if all_chunks: content.append(all_chunks.decode('utf-8'))
JsonBranch ==
    /\ dpc = "join"
    /\ IsJson(content_type)
    /\ LET all_chunks == Join(resp_lines)
       IN  IF ErrorStart(all_chunks) = -1
           THEN /\ content' = IF all_chunks # <<>> THEN <<Decode(all_chunks)>> ELSE <<>>
                /\ dpc' = "done"
                /\ UNCHANGED <<ipc, exc>>
           ELSE /\ exc' = "UnicodeDecodeError"
                /\ dpc' = "raised"
                /\ ipc' = "except"
                /\ UNCHANGED content
    /\ UNCHANGED <<resp_lines, parts_left, byte_buffer, attempts>>
    /\ UNCHANGED <<content_type, result>>
    /\ UNCHANGED outsideInvoke

\* the else branch once the body is exhausted:
\* content = response.get("response", []); ''.join(content) accepts no bytes item
ElseBranch ==
    /\ dpc = "join"
    /\ ~IsJson(content_type)
    /\ IF resp_lines = <<>>
       THEN /\ dpc' = "done"
            /\ UNCHANGED <<ipc, exc>>
       ELSE /\ exc' = "TypeError"
            /\ dpc' = "raised"
            /\ ipc' = "except"
    /\ UNCHANGED <<resp_lines, parts_left, byte_buffer, content, attempts>>
    /\ UNCHANGED <<content_type, result>>
    /\ UNCHANGED outsideInvoke

\* return {'status': 'success', 'result': result}
InvokeReturn ==
    /\ ipc = "process"
    /\ dpc = "done"
    /\ result' = SuccessResult(Returned)
    /\ ipc' = "returned"
    /\ UNCHANGED <<content_type, exc>>
    /\ UNCHANGED decodeVars
    /\ UNCHANGED outsideInvoke

\* except Exception as e: return {'status': 'error', 'error': str(e)}
InvokeExcept_reraise ==
    /\ ipc = "except"
    /\ ipc' = "raised"
    /\ UNCHANGED <<content_type, exc, result>>
    /\ UNCHANGED decodeVars
    /\ UNCHANGED outsideInvoke
InvokeExcept ==
    /\ ipc = "except"
    /\ result' = ErrorResult(exc)
    /\ ipc' = "returned"
    /\ UNCHANGED <<content_type, exc>>
    /\ UNCHANGED decodeVars
    /\ UNCHANGED outsideInvoke

InitInvoke ==
    /\ ipc = "call"
    /\ content_type = <<>>
    /\ exc = "none"
    /\ result = NoResult
    /\ DecodeIdle
    /\ StreamIdle
    /\ TestIdle
    /\ RunsIdle
    /\ LifeIdle
    /\ OidcIdle
    /\ GatewayIdle
    /\ ProviderIdle
    /\ RoleIdle
    /\ HandlerIdle
    /\ MemoryIdle

NextInvoke ==
    \/ InvokeRuntimeRaise
    \/ InvokeRuntimeReturn
    \/ NextDecode
    \/ JoinChunk
    \/ JsonBranch
    \/ ElseBranch
    \/ InvokeReturn
    \/ InvokeExcept

SpecInvoke == InitInvoke /\ [][NextInvoke]_vars

(***************************************************************************)
(* Properties of the event-stream decoder.                                 *)
(***************************************************************************)
\* all bytes of the response, in order
Whole == Join(resp_lines)

HasMultiByte(buf) == \E i \in 1..Len(buf) : buf[i] >= 128

ContainsMarker(text) ==
    \E i \in 0..(Len(text) - MarkerLen) : StartsWith(SliceFrom(text, i), Marker)

\* C2: a valid UTF-8 string holding multi-byte characters, cut in two chunks at
\* any byte offset, is returned as the original string. Stated for the strings
\* that do not hold the marker, for which the marker rule changes nothing.
C2_SplitRoundTrip ==
    (/\ dpc = "done"
     /\ Len(resp_lines) = 2
     /\ ErrorStart(Whole) = -1
     /\ HasMultiByte(Whole)
     /\ ~ContainsMarker(Decode(Whole)))
        => Returned = Decode(Whole)

\* C6: a byte is dropped from the buffer only when it is invalid: the buffer
\* whose first byte is dropped does not begin with an incomplete but valid
\* prefix of a character (the response may still deliver the rest of it).
C6_DropOnlyInvalid ==
    [][(/\ dpc = "decode"
        /\ content' = content
        /\ byte_buffer' = SliceFrom(byte_buffer, 1))
          => CharStatus(byte_buffer, 1) = "invalid"]_vars

\* C7: between chunks (a chunk is processed, the next is not yet appended) the
\* buffer holds no complete decodable character.
HasCompleteChar(buf) == \E i \in 1..Len(buf) : CharStatus(buf, i) = "ok"

C7_NoCompleteCharAtRest ==
    dpc = "next_line" => ~HasCompleteChar(byte_buffer)

\* C13: the decode-retry loop terminates: every attempt leaves the loop (the
\* buffer consumed, or a suffix retained) or shortens the buffer, the loop runs
\* only on a non-empty buffer with an attempt to make, and the attempts made for
\* a chunk never exceed the bytes the buffer held when the chunk was appended.
C13_RetryBounded ==
    [][/\ dpc' = "decode" => byte_buffer' # <<>>
       /\ attempts' + Len(byte_buffer') <= Len(Join(resp_lines'))
       /\ dpc = "decode" =>
            /\ (dpc' = "next_line" \/ Len(byte_buffer') < Len(byte_buffer))
            /\ attempts' = attempts + 1
            /\ attempts' + Len(byte_buffer') <= attempts + Len(byte_buffer)]_vars

\* three attempts for one chunk: two dropped bytes, then a successful decode
C13_Witness ==
    /\ dpc = "next_line"
    /\ attempts = 3
    /\ Len(resp_lines) = 1
    /\ byte_buffer = <<>>
    /\ Len(content) = 1

\* C14: a fragment whose decoded text begins with the marker is appended with
\* the marker removed once, at its start only; any other fragment is appended
\* as decoded.
C14_MarkerStrippedOnce ==
    [][(dpc = "decode" /\ Len(content') = Len(content) + 1) =>
          LET decoded == Decode(SliceTo(byte_buffer, Len(byte_buffer) - Len(byte_buffer')))
              fragment == content'[Len(content')]
          IN  IF StartsWith(decoded, Marker)
              THEN decoded = Marker \o fragment
              ELSE fragment = decoded]_vars

\* a second marker directly after the first is kept
C14_Witness ==
    /\ resp_lines = <<Marker \o Marker \o <<97>>>>
    /\ content = <<Marker \o <<97>>>>

\* C15: for a response that is not an event stream, _process_response returns
\* the text of all body chunks concatenated and decoded once.
C15_NonStreamDecodedOnce ==
    (dpc \in {"done", "raised"} /\ ~IsEventStream(content_type)
        /\ ErrorStart(Whole) = -1)
    => (dpc = "done" /\ Returned = Decode(Whole))

\* C20: invoke_agent never raises: once the response is processed it returns
\* the success dict with the text, and once the runtime call or the processing
\* has raised it returns the error dict with the exception's message.
C20_InvokeNeverRaises ==
    [][/\ ipc' # "raised"
       /\ (ipc = "process" /\ dpc = "done") =>
             (ipc' = "returned" /\ exc' = "none" /\ result' = SuccessResult(Returned))
       /\ ipc = "except" =>
             (ipc' = "returned" /\ exc' # "none" /\ result' = ErrorResult(exc))
       /\ (ipc # "returned" /\ ipc' = "returned") =>
             (ipc = "except" \/ (ipc = "process" /\ dpc = "done"))]_vars

\* the JSON body does not decode and invoke_agent returns the error dict
C20_Witness ==
    /\ ipc = "returned"
    /\ IsJson(content_type)
    /\ ErrorStart(Whole) # -1
    /\ result = ErrorResult("UnicodeDecodeError")

(***************************************************************************)
(* Two estimate_costs_stream generators iterated by one event loop, on one *)
(* agent instance or on two (02_runtime/deployment/invoke_async.py builds  *)
(* a new instance per invocation).  previous_output is a local of the      *)
(* generator, so each run has its own.                                     *)
(***************************************************************************)
RunDataVals == {StrVal(<<>>), StrVal(<<"a">>), StrVal(<<"a", "1">>), NumVal(1)}

\* run r enters the loop: previous_output = ""
RunStart(r) ==
    /\ r_pc[r] = "start"
    /\ r_pc' = [r_pc EXCEPT ![r] = "stream"]
    /\ r_prev' = [r_prev EXCEPT ![r] = <<>>]
    /\ UNCHANGED <<r_inst, r_inputs, r_out>>
    /\ UNCHANGED outsideRuns

\* one iteration of run r's loop with "data" in event
RunData_onself(r) ==
    /\ r_pc[r] = "stream"
    /\ Len(r_inputs[r]) < MaxRunEvents
    /\ \E d \in RunDataVals :
          LET step == DataStep(r_prev[r_inst[r]], Str(d))
          IN  /\ r_inputs' = [r_inputs EXCEPT ![r] = Append(@, DataEvent(d))]
              /\ r_prev' = [r_prev EXCEPT ![r_inst[r]] = step.prev]
              /\ r_out' = [r_out EXCEPT ![r] = @ \o step.emit]
    /\ UNCHANGED <<r_inst, r_pc>>
    /\ UNCHANGED outsideRuns
RunData(r) ==
    /\ r_pc[r] = "stream"
    /\ Len(r_inputs[r]) < MaxRunEvents
    /\ \E d \in RunDataVals :
          LET step == DataStep(r_prev[r], Str(d))
          IN  /\ r_inputs' = [r_inputs EXCEPT ![r] = Append(@, DataEvent(d))]
              /\ r_prev' = [r_prev EXCEPT ![r] = step.prev]
              /\ r_out' = [r_out EXCEPT ![r] = @ \o step.emit]
    /\ UNCHANGED <<r_inst, r_pc>>
    /\ UNCHANGED outsideRuns

\* one iteration of run r's loop with no "data" key
RunPassthrough(r) ==
    /\ r_pc[r] = "stream"
    /\ Len(r_inputs[r]) < MaxRunEvents
    /\ r_inputs' = [r_inputs EXCEPT ![r] = Append(@, OtherEvent("meta"))]
    /\ r_out' = [r_out EXCEPT ![r] = Append(@, OtherEvent("meta"))]
    /\ UNCHANGED <<r_inst, r_pc, r_prev>>
    /\ UNCHANGED outsideRuns

\* run r's agent_stream raises: the except clause yields the error marker
RunUpstreamRaise(r) ==
    /\ r_pc[r] = "stream"
    /\ r_out' = [r_out EXCEPT ![r] = Append(@, ErrorEvent(<<"x">>))]
    /\ r_pc' = [r_pc EXCEPT ![r] = "done"]
    /\ UNCHANGED <<r_inst, r_inputs, r_prev>>
    /\ UNCHANGED outsideRuns

\* run r's agent_stream is exhausted
RunUpstreamEnd(r) ==
    /\ r_pc[r] = "stream"
    /\ r_pc' = [r_pc EXCEPT ![r] = "done"]
    /\ UNCHANGED <<r_inst, r_inputs, r_prev, r_out>>
    /\ UNCHANGED outsideRuns

InitTwoStreams ==
    /\ r_inst \in {[r \in Runs |-> 1], [r \in Runs |-> r]}
    /\ r_pc = [r \in Runs |-> "start"]
    /\ r_inputs = [r \in Runs |-> <<>>]
    /\ r_prev = [r \in Runs |-> <<>>]
    /\ r_out = [r \in Runs |-> <<>>]
    /\ StreamIdle
    /\ DecodeIdle
    /\ TestIdle
    /\ InvokeIdle
    /\ LifeIdle
    /\ OidcIdle
    /\ GatewayIdle
    /\ ProviderIdle
    /\ RoleIdle
    /\ HandlerIdle
    /\ MemoryIdle

NextTwoStreams ==
    \E r \in Runs :
       \/ RunStart(r)
       \/ RunData(r)
       \/ RunPassthrough(r)
       \/ RunUpstreamRaise(r)
       \/ RunUpstreamEnd(r)

SpecTwoStreams == InitTwoStreams /\ [][NextTwoStreams]_vars

\* the events a run yields for its own upstream events when it runs alone
AloneOutput(r) == Transformed(<<>>, r_inputs[r])

\* C16: the reconciliation state belongs to the stream: however two runs are
\* interleaved, on one agent instance or on two, each run's deltas are the
\* deltas it yields for its own upstream events when it runs alone.
C16_RunsIndependent ==
    \A r \in Runs :
       SelectSeq(r_out[r], IsDelta) = SelectSeq(AloneOutput(r), IsDelta)

\* both runs on one instance, the second run's snapshot arriving while the
\* first run is between its two snapshots
C16_Witness ==
    /\ r_inst[1] = r_inst[2]
    /\ r_pc[1] = "stream" /\ r_pc[2] = "stream"
    /\ r_inputs[1] = <<DataEvent(StrVal(<<"a">>)), DataEvent(StrVal(<<"a", "1">>))>>
    /\ r_inputs[2] = <<DataEvent(NumVal(1))>>
    /\ r_out[1] = <<DataEvent(StrVal(<<"a">>)), DataEvent(StrVal(<<"1">>))>>
    /\ r_out[2] = <<DataEvent(StrVal(<<"1">>))>>

(***************************************************************************)
(* Runs of estimate_costs / estimate_costs_stream on one agent instance:   *)
(* _estimation_agent (setup, the with block, except, finally), cleanup and *)
(* the execute_cost_calculation tool.  The session object a run creates is *)
(* named by the run.                                                       *)
(***************************************************************************)
TextItem(t) == [type |-> "text", text |-> t]
ImageItem == [type |-> "image", text |-> <<>>]

\* the "content" list of one result
Contents ==
    { <<>>, <<TextItem(<<"a">>)>>, <<TextItem(<<"a">>), TextItem(<<"1">>)>>,
      <<ImageItem, TextItem(<<"1">>)>> }

\* events of response["stream"]: without "result", with a result without
\* "content", with a result holding content
ToolEvents ==
    { [hasResult |-> FALSE, hasContent |-> FALSE, content |-> <<>>],
      [hasResult |-> TRUE, hasContent |-> FALSE, content |-> <<>>] }
    \cup { [hasResult |-> TRUE, hasContent |-> TRUE, content |-> c] : c \in Contents }

\* what self.code_interpreter.invoke does: it raises, or returns a stream
ToolOutcomes ==
    { [raises |-> TRUE, stream |-> <<>>] }
    \cup { [raises |-> FALSE, stream |-> st] : st \in SeqsUpTo(ToolEvents, MaxToolEvents) }

NotInitialized == <<"Code Interpreter not initialized">>

\* the texts of the items of type "text"
RECURSIVE TextItemsOf(_)
TextItemsOf(items) ==
    IF items = <<>> THEN <<>>
    ELSE (IF Head(items).type = "text" THEN <<Head(items).text>> ELSE <<>>)
         \o TextItemsOf(Tail(items))

\* the results list built by the loop over response.get("stream", [])
RECURSIVE ResultsOf(_)
ResultsOf(stream) ==
    IF stream = <<>> THEN <<>>
    ELSE (IF Head(stream).hasResult /\ Head(stream).hasContent
          THEN TextItemsOf(Head(stream).content)
          ELSE <<>>)
         \o ResultsOf(Tail(stream))

\* "\n".join(results)
RECURSIVE JoinLines(_)
JoinLines(results) ==
    IF results = <<>> THEN <<>>
    ELSE IF Len(results) = 1 THEN Head(results)
    ELSE Head(results) \o <<"\n">> \o JoinLines(Tail(results))

\* execute_cost_calculation with self.code_interpreter = ci
ExecuteCostCalculation(ci, outcome) ==
    IF ci = 0
    THEN StrRet(NotInitialized)
    ELSE IF outcome.raises
         THEN NoneRet
         ELSE StrRet(JoinLines(ResultsOf(outcome.stream)))

\* estimate_costs or estimate_costs_stream is called and _estimation_agent entered
LifeBegin(r) ==
    /\ l_pc[r] = "idle"
    /\ \E kind \in {"sync", "stream"} : l_kind' = [l_kind EXCEPT ![r] = kind]
    /\ l_pc' = [l_pc EXCEPT ![r] = "setup_ci"]
    /\ UNCHANGED <<code_interpreter, ci_assigned, ci_started, ci_stop_called>>
    /\ UNCHANGED <<l_exc, l_cleaned, l_ret, l_calls, tool_ret>>
    /\ UNCHANGED outsideLife

\* _setup_code_interpreter: the constructor raises, start() raises, or both
\* succeed; every exception is caught
SetupCodeInterpreter(r) ==
    /\ l_pc[r] = "setup_ci"
    /\ \/ UNCHANGED <<code_interpreter, ci_assigned, ci_started>>
       \/ /\ code_interpreter' = r
          /\ ci_assigned' = ci_assigned \cup {r}
          /\ UNCHANGED ci_started
       \/ /\ code_interpreter' = r
          /\ ci_assigned' = ci_assigned \cup {r}
          /\ ci_started' = ci_started \cup {r}
    /\ l_pc' = [l_pc EXCEPT ![r] = "setup_pricing"]
    /\ UNCHANGED <<ci_stop_called, l_kind, l_exc, l_cleaned, l_ret, l_calls, tool_ret>>
    /\ UNCHANGED outsideLife

\* _setup_aws_pricing_client returns a client, or None on which `with` raises
SetupPricingClient(r) ==
    /\ l_pc[r] = "setup_pricing"
    /\ \/ /\ l_pc' = [l_pc EXCEPT ![r] = "create_agent"]
          /\ UNCHANGED l_exc
       \/ /\ l_pc' = [l_pc EXCEPT ![r] = "cleanup"]
          /\ l_exc' = [l_exc EXCEPT ![r] = "Exception"]
    /\ UNCHANGED <<code_interpreter, ci_assigned, ci_started, ci_stop_called>>
    /\ UNCHANGED <<l_kind, l_cleaned, l_ret, l_calls, tool_ret>>
    /\ UNCHANGED outsideLife

\* entering the client, list_tools_sync and Agent(...): `yield agent` is
\* reached, or one of them raises
CreateAgent(r) ==
    /\ l_pc[r] = "create_agent"
    /\ \/ /\ l_pc' = [l_pc EXCEPT ![r] = "body"]
          /\ UNCHANGED l_exc
       \/ /\ l_pc' = [l_pc EXCEPT ![r] = "cleanup"]
          /\ l_exc' = [l_exc EXCEPT ![r] = "Exception"]
    /\ UNCHANGED <<code_interpreter, ci_assigned, ci_started, ci_stop_called>>
    /\ UNCHANGED <<l_kind, l_cleaned, l_ret, l_calls, tool_ret>>
    /\ UNCHANGED outsideLife

\* the agent calls the execute_cost_calculation tool
ToolCall(r) ==
    /\ l_pc[r] = "body"
    /\ l_calls[r] < MaxToolCalls
    /\ \E outcome \in ToolOutcomes :
          tool_ret' = ExecuteCostCalculation(code_interpreter, outcome)
    /\ l_calls' = [l_calls EXCEPT ![r] = @ + 1]
    /\ UNCHANGED <<code_interpreter, ci_assigned, ci_started, ci_stop_called>>
    /\ UNCHANGED <<l_pc, l_kind, l_exc, l_cleaned, l_ret>>
    /\ UNCHANGED outsideLife

\* the body of the with block completes: agent(prompt) returns, or the
\* agent stream is exhausted
BodyComplete(r) ==
    /\ l_pc[r] = "body"
    /\ l_pc' = [l_pc EXCEPT ![r] = "cleanup"]
    /\ UNCHANGED <<code_interpreter, ci_assigned, ci_started, ci_stop_called>>
    /\ UNCHANGED <<l_kind, l_exc, l_cleaned, l_ret, l_calls, tool_ret>>
    /\ UNCHANGED outsideLife

\* the agent raises inside the with block: except logs and re-raises
BodyRaise(r) ==
    /\ l_pc[r] = "body"
    /\ l_pc' = [l_pc EXCEPT ![r] = "cleanup"]
    /\ l_exc' = [l_exc EXCEPT ![r] = "Exception"]
    /\ UNCHANGED <<code_interpreter, ci_assigned, ci_started, ci_stop_called>>
    /\ UNCHANGED <<l_kind, l_cleaned, l_ret, l_calls, tool_ret>>
    /\ UNCHANGED outsideLife

\* the consumer stops iterating estimate_costs_stream and the generator is
\* closed: GeneratorExit is raised at the yield, past `except Exception`
BodyClose(r) ==
    /\ l_pc[r] = "body"
    /\ l_kind[r] = "stream"
    /\ l_pc' = [l_pc EXCEPT ![r] = "cleanup"]
    /\ l_exc' = [l_exc EXCEPT ![r] = "GeneratorExit"]
    /\ UNCHANGED <<code_interpreter, ci_assigned, ci_started, ci_stop_called>>
    /\ UNCHANGED <<l_kind, l_cleaned, l_ret, l_calls, tool_ret>>
    /\ UNCHANGED outsideLife

\* finally: self.cleanup(): stop() on the current session, which may raise,
\* and self.code_interpreter = None in the inner finally
Cleanup_nofinally(r) ==
    /\ l_pc[r] = "cleanup"
    /\ IF code_interpreter # 0
       THEN /\ ci_stop_called' = ci_stop_called \cup {code_interpreter}
            /\ \/ /\ ci_started' = ci_started \ {code_interpreter}
                  /\ code_interpreter' = 0
               \/ UNCHANGED <<ci_started, code_interpreter>>
       ELSE UNCHANGED <<code_interpreter, ci_started, ci_stop_called>>
    /\ l_cleaned' = [l_cleaned EXCEPT ![r] = TRUE]
    /\ l_pc' = [l_pc EXCEPT ![r] = "finish"]
    /\ UNCHANGED <<ci_assigned, l_kind, l_exc, l_ret, l_calls, tool_ret>>
    /\ UNCHANGED outsideLife
Cleanup(r) ==
    /\ l_pc[r] = "cleanup"
    /\ IF code_interpreter # 0
       THEN /\ ci_stop_called' = ci_stop_called \cup {code_interpreter}
            /\ \/ ci_started' = ci_started \ {code_interpreter}
               \/ UNCHANGED ci_started
            /\ code_interpreter' = 0
       ELSE UNCHANGED <<code_interpreter, ci_started, ci_stop_called>>
    /\ l_cleaned' = [l_cleaned EXCEPT ![r] = TRUE]
    /\ l_pc' = [l_pc EXCEPT ![r] = "finish"]
    /\ UNCHANGED <<ci_assigned, l_kind, l_exc, l_ret, l_calls, tool_ret>>
    /\ UNCHANGED outsideLife

\* the run ends: estimate_costs returns the estimate or the error string;
\* estimate_costs_stream is exhausted, yields the error marker, or is closed
Finish(r) ==
    /\ l_pc[r] = "finish"
    /\ l_ret' = [l_ret EXCEPT ![r] =
                    IF l_kind[r] = "sync"
                    THEN (IF l_exc[r] = "none" THEN "text" ELSE "error_text")
                    ELSE (IF l_exc[r] = "none" THEN "exhausted"
                          ELSE IF l_exc[r] = "Exception" THEN "error_event"
                          ELSE "closed")]
    /\ l_pc' = [l_pc EXCEPT ![r] = "ended"]
    /\ UNCHANGED <<code_interpreter, ci_assigned, ci_started, ci_stop_called>>
    /\ UNCHANGED <<l_kind, l_exc, l_cleaned, l_calls, tool_ret>>
    /\ UNCHANGED outsideLife

\* no other run is between its begin and its end; the runs are numbered in
\* the order they begin
NoOtherRun(r) ==
    \A q \in Runs \ {r} : l_pc[q] = (IF q < r THEN "ended" ELSE "idle")

InitLifecycle ==
    /\ LifeIdle
    /\ OidcIdle
    /\ GatewayIdle
    /\ ProviderIdle
    /\ RoleIdle
    /\ HandlerIdle
    /\ MemoryIdle
    /\ StreamIdle
    /\ DecodeIdle
    /\ TestIdle
    /\ InvokeIdle
    /\ RunsIdle

\* runs on the instance, one after the other
NextLifecycle ==
    \E r \in Runs :
       \/ NoOtherRun(r) /\ LifeBegin(r)
       \/ SetupCodeInterpreter(r)
       \/ SetupPricingClient(r)
       \/ CreateAgent(r)
       \/ ToolCall(r)
       \/ BodyComplete(r)
       \/ BodyRaise(r)
       \/ BodyClose(r)
       \/ Cleanup(r)
       \/ Finish(r)

SpecLifecycle == InitLifecycle /\ [][NextLifecycle]_vars

\* C17: whichever way a run leaves (the agent completes, component setup
\* fails, the agent raises), at its end cleanup() has run, stop() has been
\* called on every session object that was assigned, and code_interpreter is
\* None, also when stop() raised.
C17_CleanupAlways ==
    [][\A r \in Runs :
          (l_pc[r] # "ended" /\ l_pc'[r] = "ended") =>
              /\ l_cleaned'[r]
              /\ code_interpreter' = 0
              /\ ci_assigned' \subseteq ci_stop_called']_vars

\* the agent raised, and stop() raised on the started session
C17_Witness ==
    /\ l_pc[1] = "ended"
    /\ l_exc[1] = "Exception"
    /\ l_calls[1] > 0
    /\ ci_assigned = {1}
    /\ 1 \in ci_started
    /\ ci_stop_called = {1}
    /\ code_interpreter = 0

\* C19: execute_cost_calculation returns a str on every path: the fixed
\* message when code_interpreter is unset, and a str as well when the
\* invocation succeeds or raises.
C19_ToolReturnsString ==
    [][l_calls' # l_calls =>
          /\ tool_ret'.kind = "str"
          /\ code_interpreter = 0 => tool_ret'.text = NotInitialized]_vars

(***************************************************************************)
(* Invariants of the reconciliation state of estimate_costs_stream.        *)
(***************************************************************************)
\* s.endswith(t)
EndsWith(s, t) ==
    /\ Len(t) <= Len(s)
    /\ SubSeq(s, Len(s) - Len(t) + 1, Len(s)) = t

LatestSnapshot == IF Snapshots = <<>> THEN <<>> ELSE Snapshots[Len(Snapshots)]

\* C27: after every processed event previous_output is the text of the most
\* recent Data snapshot received, the empty string if there was none,
\* whichever branch handled the event.
C27_PreviousIsLatestSnapshot ==
    spc \in {"stream", "done"} => previous_output = LatestSnapshot

\* a reset, then a duplicate of the new snapshot, then a non-data event
C27_Witness ==
    /\ spc = "stream"
    /\ Len(inputs) = 3
    /\ Snapshots = <<<<"a">>, <<"1">>>>
    /\ ~IsData(inputs[3])
    /\ Len(out) = 3
    /\ previous_output = <<"1">>

\* C28: at every point of the stream the concatenation of the delta texts
\* yielded so far ends with previous_output.
C28_EmittedEndsWithPrevious ==
    spc \in {"stream", "done"} => EndsWith(Join(DeltaTexts), previous_output)

\* a snapshot that is not an extension, followed by an extension of it
C28_Witness ==
    /\ spc = "stream"
    /\ Snapshots = <<<<"a", "1">>, <<"1">>, <<"1", "a">>>>
    /\ Join(DeltaTexts) = <<"a", "1", "1", "a">>
    /\ previous_output = <<"1", "a">>

(***************************************************************************)
(* Two runs on one agent instance that overlap: estimate_costs_stream      *)
(* generators iterated by one event loop, or estimate_costs in two         *)
(* threads.  Both runs read and write the same self.code_interpreter.      *)
(***************************************************************************)
NextInterleaved ==
    \E r \in Runs :
       \/ LifeBegin(r)
       \/ SetupCodeInterpreter(r)
       \/ SetupPricingClient(r)
       \/ CreateAgent(r)
       \/ ToolCall(r)
       \/ BodyComplete(r)
       \/ BodyRaise(r)
       \/ BodyClose(r)
       \/ Cleanup(r)
       \/ Finish(r)

SpecInterleaved == InitLifecycle /\ [][NextInterleaved]_vars

\* run q has set up its session and has not reached its own cleanup
UsingSession(q) ==
    /\ l_pc[q] \in {"setup_pricing", "create_agent", "body"}
    /\ q \in ci_assigned

\* C29: when both runs have ended, stop() has been called on every session
\* that was started, and the cleanup of one run neither stops nor clears the
\* session the other run is still using.
C29_InterleavedCleanup ==
    [][/\ (\A r \in Runs : l_pc'[r] = "ended") => ci_started' \subseteq ci_stop_called'
       /\ \A r \in Runs :
             (l_pc[r] = "cleanup" /\ l_pc'[r] = "finish") =>
                 \A q \in Runs \ {r} :
                    UsingSession(q) =>
                        /\ (q \in ci_stop_called' <=> q \in ci_stop_called)
                        /\ (code_interpreter = q => code_interpreter' = q)]_vars

(***************************************************************************)
(* AgentWithMemory.__init__ (06_memory/test_memory.py).                    *)
(***************************************************************************)
\* memory_name = "cost_estimator_memory"
MemoryName == <<"cost_estimator_memory">>

\* memories an account may hold: the one of that name, one whose name only
\* begins with it, and an unrelated one
MemoryPool ==
    { Memory(MemoryName, "a"),
      Memory(MemoryName \o <<"_v2">>, "b"),
      Memory(<<"other">>, "c") }

Accounts ==
    { acc \in SeqsUpTo(MemoryPool, MaxMemories) :
         \A i, j \in 1..Len(acc) : acc[i] = acc[j] => i = j }

\* the loop over existing_memories: the first memory whose memoryId starts
\* with memory_name
RECURSIVE FirstMatch(_)
FirstMatch(memories) ==
    IF memories = <<>> THEN NoMemory
    ELSE IF StartsWith(Head(memories).id, MemoryName) THEN Head(memories)
    ELSE FirstMatch(Tail(memories))

\* MemoryClient(...) or list_memories() raises: the except clause logs
MemoryListRaise ==
    /\ m_pc = "list"
    /\ m_failed' = TRUE
    /\ m_pc' = "done"
    /\ UNCHANGED <<m_account, force_recreate, existing_memory, memory_id, m_deleted, m_created>>
    /\ UNCHANGED outsideMemory

\* list_memories() and the search for an existing memory
MemoryList ==
    /\ m_pc = "list"
    /\ existing_memory' = FirstMatch(m_account)
    /\ m_pc' = "found"
    /\ UNCHANGED <<m_account, force_recreate, memory_id, m_deleted, m_created, m_failed>>
    /\ UNCHANGED outsideMemory

\* if existing_memory: reuse it, or delete it and wait when force_recreate
MemoryFound ==
    /\ m_pc = "found"
    /\ IF existing_memory = NoMemory
       THEN /\ m_pc' = "create"
            /\ UNCHANGED <<existing_memory, memory_id, m_deleted, m_failed>>
       ELSE IF ~force_recreate
       THEN /\ memory_id' = existing_memory.id
            /\ m_pc' = "create"
            /\ UNCHANGED <<existing_memory, m_deleted, m_failed>>
       ELSE \/ /\ m_deleted' = m_deleted \cup {existing_memory.id}
               /\ existing_memory' = NoMemory
               /\ m_pc' = "create"
               /\ UNCHANGED <<memory_id, m_failed>>
            \/ /\ m_failed' = TRUE
               /\ m_pc' = "done"
               /\ UNCHANGED <<existing_memory, memory_id, m_deleted>>
    /\ UNCHANGED <<m_account, force_recreate, m_created>>
    /\ UNCHANGED outsideMemory

\* if existing_memory is None: create_memory_and_wait, which may raise
MemoryCreate ==
    /\ m_pc = "create"
    /\ IF existing_memory = NoMemory
       THEN \/ /\ m_created' = Append(m_created, Memory(MemoryName, "n"))
               /\ memory_id' = Memory(MemoryName, "n").id
               /\ m_pc' = "rest"
               /\ UNCHANGED m_failed
            \/ /\ m_failed' = TRUE
               /\ m_pc' = "done"
               /\ UNCHANGED <<m_created, memory_id>>
       ELSE /\ m_pc' = "rest"
            /\ UNCHANGED <<m_created, memory_id, m_failed>>
    /\ UNCHANGED <<m_account, force_recreate, existing_memory, m_deleted>>
    /\ UNCHANGED outsideMemory

\* the Bedrock Runtime client and the Agent are built, or one of them raises
MemoryRest ==
    /\ m_pc = "rest"
    /\ m_failed' \in BOOLEAN
    /\ m_pc' = "done"
    /\ UNCHANGED <<m_account, force_recreate, existing_memory, memory_id, m_deleted, m_created>>
    /\ UNCHANGED outsideMemory

InitMemory ==
    /\ m_pc = "list"
    /\ m_account \in Accounts
    /\ force_recreate \in BOOLEAN
    /\ existing_memory = NoMemory
    /\ memory_id = <<>>
    /\ m_deleted = {}
    /\ m_created = <<>>
    /\ m_failed = FALSE
    /\ StreamIdle
    /\ DecodeIdle
    /\ TestIdle
    /\ InvokeIdle
    /\ RunsIdle
    /\ LifeIdle
    /\ OidcIdle
    /\ GatewayIdle
    /\ ProviderIdle
    /\ RoleIdle
    /\ HandlerIdle

NextMemory ==
    \/ MemoryListRaise
    \/ MemoryList
    \/ MemoryFound
    \/ MemoryCreate
    \/ MemoryRest

SpecMemory == InitMemory /\ [][NextMemory]_vars

\* the memories of the account named cost_estimator_memory
NamedMemories == {i \in 1..Len(m_account) : m_account[i].name = MemoryName}

\* C21: with a memory named cost_estimator_memory and force_recreate False
\* nothing is created or deleted and memory_id is that memory's id; with
\* force_recreate True that memory is deleted, and the deletion awaited,
\* before one is created; without such a memory exactly one is created; a
\* successful initialisation leaves memory_id set.
C21_MemoryInit ==
    /\ m_created # <<>> =>
          \A i \in NamedMemories : force_recreate /\ m_account[i].id \in m_deleted
    /\ (m_pc = "done" /\ ~m_failed) =>
          /\ memory_id # <<>>
          /\ \A i \in NamedMemories :
                ~force_recreate =>
                   (m_created = <<>> /\ m_deleted = {} /\ memory_id = m_account[i].id)
          /\ NamedMemories = {} => Len(m_created) = 1

(***************************************************************************)
(* lambda_handler and convert_and_send_email (04_gateway/src/app.py).      *)
(* A tool name is the sequence of its parts between "___" separators.      *)
(***************************************************************************)
ToolNames ==
    { <<"markdown_to_email">>, <<"target", "markdown_to_email">>,
      <<"target", "other">>, <<"markdown_to_email", "">>, <<"">> }

\* context: None (or without client_context), with client_context.custom
\* holding a tool name, or with a client_context whose custom is None
Contexts ==
    { NoContext, [kind |-> "broken", name |-> <<"">>] }
    \cup { [kind |-> "custom", name |-> n] : n \in ToolNames }

Events ==
    [ tool_name : ToolNames, markdown_text : {<<>>, <<"m">>},
      email_address : {<<>>, <<"e">>}, serializable : BOOLEAN ]

\* if "___" in tool_name: tool_name = tool_name.split("___")[-1]
StripPrefix(name) == IF Len(name) > 1 THEN <<name[Len(name)]>> ELSE name

\* the try block up to `Processing tool`: logging the event and resolving
\* the tool name from the context or from the event
HandlerResolve ==
    /\ h_pc = "start"
    /\ IF ~h_event.serializable \/ h_context.kind = "broken"
       THEN /\ h_exc' = TRUE
            /\ h_pc' = "except"
            /\ UNCHANGED tool_name
       ELSE /\ tool_name' = IF h_context.kind = "custom"
                            THEN StripPrefix(h_context.name)
                            ELSE h_event.tool_name
            /\ h_pc' = "validate"
            /\ UNCHANGED h_exc
    /\ UNCHANGED <<h_context, h_event, h_sent, h_response>>
    /\ UNCHANGED outsideHandler

\* the three checks that return statusCode 400
HandlerValidate_anyaddress ==
    /\ h_pc = "validate"
    /\ IF tool_name # <<"markdown_to_email">> \/ h_event.markdown_text = <<>>
       THEN /\ h_response' = 400
            /\ h_pc' = "returned"
       ELSE /\ h_pc' = "convert"
            /\ UNCHANGED h_response
    /\ UNCHANGED <<h_context, h_event, tool_name, h_sent, h_exc>>
    /\ UNCHANGED outsideHandler
HandlerValidate ==
    /\ h_pc = "validate"
    /\ IF \/ tool_name # <<"markdown_to_email">>
          \/ h_event.markdown_text = <<>>
          \/ h_event.email_address = <<>>
       THEN /\ h_response' = 400
            /\ h_pc' = "returned"
       ELSE /\ h_pc' = "convert"
            /\ UNCHANGED h_response
    /\ UNCHANGED <<h_context, h_event, tool_name, h_sent, h_exc>>
    /\ UNCHANGED outsideHandler

\* convert_and_send_email up to the SES client: markdown.markdown, the
\* SES_SENDER_EMAIL lookup and boto3.client succeed, or one raises
HandlerConvert ==
    /\ h_pc = "convert"
    /\ \/ /\ h_pc' = "send"
          /\ UNCHANGED h_exc
       \/ /\ h_exc' = TRUE
          /\ h_pc' = "except"
    /\ UNCHANGED <<h_context, h_event, tool_name, h_sent, h_response>>
    /\ UNCHANGED outsideHandler

\* ses_client.send_email: SES accepts the message, or raises ClientError
HandlerSend ==
    /\ h_pc = "send"
    /\ \/ /\ h_sent' = h_sent + 1
          /\ h_pc' = "sent"
          /\ UNCHANGED h_exc
       \/ /\ h_exc' = TRUE
          /\ h_pc' = "except"
          /\ UNCHANGED h_sent
    /\ UNCHANGED <<h_context, h_event, tool_name, h_response>>
    /\ UNCHANGED outsideHandler

\* response['MessageId'] and the return of statusCode 200, or a raise there
HandlerReturn ==
    /\ h_pc = "sent"
    /\ \/ /\ h_response' = 200
          /\ h_pc' = "returned"
          /\ UNCHANGED h_exc
       \/ /\ h_exc' = TRUE
          /\ h_pc' = "except"
          /\ UNCHANGED h_response
    /\ UNCHANGED <<h_context, h_event, tool_name, h_sent>>
    /\ UNCHANGED outsideHandler

\* except Exception as e: return statusCode 500
HandlerExcept ==
    /\ h_pc = "except"
    /\ h_response' = 500
    /\ h_pc' = "returned"
    /\ UNCHANGED <<h_context, h_event, tool_name, h_sent, h_exc>>
    /\ UNCHANGED outsideHandler

InitHandler ==
    /\ h_pc = "start"
    /\ h_context \in Contexts
    /\ h_event \in Events
    /\ tool_name = <<"">>
    /\ h_sent = 0
    /\ h_exc = FALSE
    /\ h_response = 0
    /\ StreamIdle
    /\ DecodeIdle
    /\ TestIdle
    /\ InvokeIdle
    /\ RunsIdle
    /\ LifeIdle
    /\ OidcIdle
    /\ GatewayIdle
    /\ ProviderIdle
    /\ RoleIdle
    /\ MemoryIdle

NextHandler ==
    \/ HandlerResolve
    \/ HandlerValidate
    \/ HandlerConvert
    \/ HandlerSend
    \/ HandlerReturn
    \/ HandlerExcept

SpecHandler == InitHandler /\ [][NextHandler]_vars

\* the name the handler was given: from the context when there is one
GivenToolName ==
    IF h_context.kind = "custom" THEN h_context.name ELSE h_event.tool_name

\* the request is one the tool accepts
SendableRequest ==
    /\ GivenToolName[Len(GivenToolName)] = "markdown_to_email"
    /\ h_event.markdown_text # <<>>
    /\ h_event.email_address # <<>>

\* C22: lambda_handler always returns a status; an email is sent only for
\* the tool markdown_to_email (a target prefix removed) with non-empty
\* markdown_text and email_address, at most once; any other request gets 400
\* (500 if a step raised) and no email; 200 is returned only after the send
\* succeeded, and 500 whenever a step raised.
C22_HandlerStatus ==
    /\ h_sent > 0 => (SendableRequest /\ h_sent = 1)
    /\ h_pc = "returned" =>
          /\ h_response = (IF h_exc THEN 500 ELSE IF h_sent = 1 THEN 200 ELSE 400)
          /\ ~SendableRequest => (h_sent = 0 /\ h_response \in {400, 500})
          /\ h_response = 200 => h_sent = 1
    /\ h_pc # "returned" => (h_response = 0 /\ ENABLED NextHandler)

\* the gateway's prefixed tool name, both parameters present, the send done
C22_Witness ==
    /\ h_pc = "returned"
    /\ h_context = [kind |-> "custom", name |-> <<"target", "markdown_to_email">>]
    /\ h_response = 200
    /\ h_sent = 1

(***************************************************************************)
(* AgentPreparer.create_agentcore_role (02_runtime/prepare_agent.py),      *)
(* called repeatedly against one IAM account.                              *)
(***************************************************************************)
\* a call begins: role_name = f"AgentCoreRole-{self.agent_name}",
\* role_exists = False, response = None
RoleBegin ==
    /\ g_pc \in {"begin", "done"}
    /\ g_calls < MaxRoleCalls
    /\ g_calls' = g_calls + 1
    /\ g_agent' \in AgentNames
    /\ role_exists' = FALSE
    /\ g_put' = FALSE
    /\ g_ret' = "none"
    /\ g_pc' = "get"
    /\ UNCHANGED <<iam_role, iam_policy>>
    /\ UNCHANGED outsideRole

\* get_role: it returns the role, or raises ClientError (always when the
\* role is absent), which is passed over
RoleGet ==
    /\ g_pc = "get"
    /\ \/ /\ iam_role[g_agent]
          /\ role_exists' = TRUE
          /\ g_pc' = "return"
       \/ /\ role_exists' = FALSE
          /\ g_pc' = "create"
    /\ UNCHANGED <<g_agent, iam_role, iam_policy, g_put, g_ret, g_calls>>
    /\ UNCHANGED outsideRole

\* if not role_exists: create_role, return {} on ClientError
RoleCreate ==
    /\ g_pc = "create"
    /\ \/ /\ ~iam_role[g_agent]
          /\ iam_role' = [iam_role EXCEPT ![g_agent] = TRUE]
          /\ g_pc' = "put"
          /\ UNCHANGED g_ret
       \/ /\ g_ret' = "empty"
          /\ g_pc' = "done"
          /\ UNCHANGED iam_role
    /\ UNCHANGED <<g_agent, iam_policy, role_exists, g_put, g_calls>>
    /\ UNCHANGED outsideRole

\* put_role_policy inside the same `if not role_exists:` block,
\* return {} on ClientError
RolePut ==
    /\ g_pc = "put"
    /\ \/ /\ iam_policy' = [iam_policy EXCEPT ![g_agent] = "current"]
          /\ g_put' = TRUE
          /\ g_pc' = "return"
          /\ UNCHANGED g_ret
       \/ /\ g_ret' = "empty"
          /\ g_pc' = "done"
          /\ UNCHANGED <<iam_policy, g_put>>
    /\ UNCHANGED <<g_agent, iam_role, role_exists, g_calls>>
    /\ UNCHANGED outsideRole

\* return {'agent_name': ..., 'role_name': ..., 'role_arn': ...}
RoleReturn ==
    /\ g_pc = "return"
    /\ g_ret' = "info"
    /\ g_pc' = "done"
    /\ UNCHANGED <<g_agent, iam_role, iam_policy, role_exists, g_put, g_calls>>
    /\ UNCHANGED outsideRole

\* the roles and inline policies IAM may hold before the first call
IamStates ==
    { st \in [AgentNames -> {"absent", "none", "old", "current"}] : TRUE }

InitRole ==
    /\ g_pc = "begin"
    /\ g_agent = "cost_estimator_agent"
    /\ \E st \in IamStates :
          /\ iam_role = [a \in AgentNames |-> st[a] # "absent"]
          /\ iam_policy = [a \in AgentNames |-> IF st[a] = "absent" THEN "none" ELSE st[a]]
    /\ role_exists = FALSE
    /\ g_put = FALSE
    /\ g_ret = "none"
    /\ g_calls = 0
    /\ StreamIdle
    /\ DecodeIdle
    /\ TestIdle
    /\ InvokeIdle
    /\ RunsIdle
    /\ LifeIdle
    /\ OidcIdle
    /\ GatewayIdle
    /\ ProviderIdle
    /\ MemoryIdle
    /\ HandlerIdle

NextRole ==
    \/ RoleBegin
    \/ RoleGet
    \/ RoleCreate
    \/ RolePut
    \/ RoleReturn

SpecRole == InitRole /\ [][NextRole]_vars

\* C23: every call that returns the role information has attached the
\* execution policy with put_role_policy, for a new role and for an
\* existing one.
C23_PolicyAlwaysAttached ==
    g_ret = "info" => g_put

(***************************************************************************)
(* setup_oauth2_credential_provider                                        *)
(* (03_identity/setup_inbound_authorizer.py): the saved configuration      *)
(* holds the keys "cognito" and "provider" (and "runtime", saved by        *)
(* main); with force the existing provider and Cognito resources are to    *)
(* be removed before new ones are created.                                 *)
(***************************************************************************)

\* the top-level keys inbound_authorizer.json may hold
ProviderConfigKeys == {"cognito", "provider", "runtime"}

\* cleanup_cognito_resources(cognito_config): the deletions are made only
\* under `if not cognito_config.get('user_pool_id')`, that is for a missing
\* or empty user_pool_id; they address the pool of that id, and whatever
\* they raise is logged and passed over.  A configuration holding a user
\* pool id takes no deletion at all.
cleanup_cognito_resources(pools, user_pool_id) ==
    IF user_pool_id = ""
    THEN pools \ {user_pool_id}
    ELSE pools

\* config = load_config(); has_cognito, has_provider; the early return
\* when everything is configured and force is not given
ProviderBegin ==
    /\ o_pc = "begin"
    /\ has_cognito' = (o_config # {} /\ "cognito" \in o_config)
    /\ has_provider' = (o_config # {} /\ "provider" \in o_config)
    /\ IF o_config # {} /\ has_cognito' /\ has_provider' /\ ~o_force
       THEN /\ o_ret' = "config"
            /\ o_pc' = "done"
       ELSE /\ o_pc' = IF o_config # {} THEN "delete_provider" ELSE "cognito"
            /\ UNCHANGED o_ret
    /\ UNCHANGED <<o_force, o_config, o_user_pool_id, o_file, discovery_url,
                   cloud_provider, cloud_pools>>
    /\ UNCHANGED outsideProvider

\* if has_provider and force: delete_oauth2_credential_provider,
\* save_config(delete_key="provider"), has_provider = False
ProviderDelete ==
    /\ o_pc = "delete_provider"
    /\ IF has_provider /\ o_force
       THEN \/ /\ cloud_provider = "old"
               /\ cloud_provider' = "none"
               /\ o_file' = o_file \ {"provider"}
               /\ has_provider' = FALSE
               /\ o_pc' = "delete_cognito"
               /\ UNCHANGED o_ret
            \/ /\ o_ret' = "raised"
               /\ o_pc' = "done"
               /\ UNCHANGED <<cloud_provider, o_file, has_provider>>
       ELSE /\ o_pc' = "delete_cognito"
            /\ UNCHANGED <<cloud_provider, o_file, has_provider, o_ret>>
    /\ UNCHANGED <<o_force, o_config, o_user_pool_id, has_cognito,
                   discovery_url, cloud_pools>>
    /\ UNCHANGED outsideProvider

\* if has_cognito and force: cleanup_cognito_resources(config['cognito']),
\* save_config(delete_key="cognito"), has_cognito = False
ProviderCleanup ==
    /\ o_pc = "delete_cognito"
    /\ IF has_cognito /\ o_force
       THEN /\ cloud_pools' = cleanup_cognito_resources(cloud_pools, o_user_pool_id)
            /\ o_file' = o_file \ {"cognito"}
            /\ has_cognito' = FALSE
       ELSE UNCHANGED <<cloud_pools, o_file, has_cognito>>
    /\ o_pc' = "cognito"
    /\ UNCHANGED <<o_force, o_config, o_user_pool_id, has_provider,
                   discovery_url, cloud_provider, o_ret>>
    /\ UNCHANGED outsideProvider

\* if not has_cognito: create_oauth_authorizer_with_cognito, discovery_url,
\* save_config({"cognito": cognito_config})
ProviderCreateCognito ==
    /\ o_pc = "cognito"
    /\ IF ~has_cognito
       THEN \/ /\ cloud_pools' = cloud_pools \cup {"pool_new"}
               /\ discovery_url' = TRUE
               /\ o_file' = o_file \cup {"cognito"}
               /\ o_pc' = "provider"
               /\ UNCHANGED o_ret
            \/ /\ o_ret' = "raised"
               /\ o_pc' = "done"
               /\ UNCHANGED <<cloud_pools, discovery_url, o_file>>
       ELSE /\ o_pc' = "provider"
            /\ UNCHANGED <<cloud_pools, discovery_url, o_file, o_ret>>
    /\ UNCHANGED <<o_force, o_config, o_user_pool_id, has_cognito,
                   has_provider, cloud_provider>>
    /\ UNCHANGED outsideProvider

\* if not has_provider: wait_for_oidc_endpoint(discovery_url) (an unassigned
\* discovery_url raises), create_oauth2_credential_provider (a provider of
\* the name still present makes it raise), save_config, return
\* load_config(); with has_provider the function falls off its end
ProviderCreate ==
    /\ o_pc = "provider"
    /\ IF ~has_provider
       THEN \/ /\ discovery_url
               /\ cloud_provider = "none"
               /\ cloud_provider' = "new"
               /\ o_file' = o_file \cup {"provider"}
               /\ o_ret' = "config"
            \/ /\ o_ret' = "raised"
               /\ UNCHANGED <<cloud_provider, o_file>>
       ELSE /\ o_ret' = "None"
            /\ UNCHANGED <<cloud_provider, o_file>>
    /\ o_pc' = "done"
    /\ UNCHANGED <<o_force, o_config, o_user_pool_id, has_cognito,
                   has_provider, discovery_url, cloud_pools>>
    /\ UNCHANGED outsideProvider

InitProvider ==
    /\ o_pc = "begin"
    /\ o_force \in BOOLEAN
    /\ o_config \in SUBSET ProviderConfigKeys
    /\ o_user_pool_id \in (IF "cognito" \in o_config THEN {"", "pool_old"} ELSE {""})
    /\ o_file = o_config
    /\ has_cognito = FALSE
    /\ has_provider = FALSE
    /\ discovery_url = FALSE
    /\ cloud_provider \in {"none", "old"}
    /\ cloud_pools \in {{}, {"pool_old"}}
    /\ o_ret = "none"
    /\ StreamIdle
    /\ DecodeIdle
    /\ TestIdle
    /\ InvokeIdle
    /\ RunsIdle
    /\ LifeIdle
    /\ MemoryIdle
    /\ HandlerIdle
    /\ RoleIdle
    /\ GatewayIdle
    /\ OidcIdle

NextProvider ==
    \/ ProviderBegin
    \/ ProviderDelete
    \/ ProviderCleanup
    \/ ProviderCreateCognito
    \/ ProviderCreate

SpecProvider == InitProvider /\ [][NextProvider]_vars

\* C24: with force and a saved configuration holding both "provider" and
\* "cognito", once a new Cognito authorizer or a new provider has been
\* created the existing provider and the existing user pool named by the
\* configuration are gone from the account.
C24_OldRemovedBeforeNew ==
    (/\ o_force
     /\ {"provider", "cognito"} \subseteq o_config
     /\ ("pool_new" \in cloud_pools \/ cloud_provider = "new"))
        => /\ cloud_provider # "old"
           /\ o_user_pool_id \notin cloud_pools

(***************************************************************************)
(* setup_gateway (04_gateway/setup_outbound_gateway.py): the saved         *)
(* configuration holds the gateway under the key "gateway", as             *)
(* {"id", "url", "target_id"}; with force the existing target and gateway  *)
(* are to be deleted before a new gateway and target are created.          *)
(***************************************************************************)

\* the top-level keys outbound_gateway.json may hold
GatewayConfigKeys == {"lambda_arn", "provider", "gateway"}

\* delete_gateway(client, config), on the targets: the target is deleted
\* when config itself holds 'target_id' and 'id'
delete_gateway_target(targets, config) ==
    IF "target_id" \in config /\ "id" \in config
    THEN targets \ {"target_old"}
    ELSE targets

\* delete_gateway(client, config), on the gateways: the gateway is deleted
\* when config itself holds 'id'
delete_gateway(gateways, config) ==
    IF "id" \in config
    THEN gateways \ {"gateway_old"}
    ELSE gateways

\* config = load_config(); has_provider, has_gateway; the early return when
\* everything is configured and force is not given
GatewayBegin ==
    /\ w_pc = "begin"
    /\ has_gateway' = (w_config # {} /\ "gateway" \in w_config)
    /\ IF w_config # {} /\ "provider" \in w_config /\ has_gateway' /\ ~w_force
       THEN /\ w_ret' = "config"
            /\ w_pc' = "done"
       ELSE /\ w_pc' = IF w_config # {} THEN "delete" ELSE "identity"
            /\ UNCHANGED w_ret
    /\ UNCHANGED <<w_force, w_config, w_file, identity_file, cloud_gateways,
                   cloud_targets>>
    /\ UNCHANGED outsideGateway

\* if has_gateway and force: delete_gateway(gateway_client, config),
\* has_gateway = False; a deletion that is made may raise
GatewayDelete ==
    /\ w_pc = "delete"
    /\ IF has_gateway /\ w_force
       THEN \/ /\ cloud_targets' = delete_gateway_target(cloud_targets, w_config)
               /\ cloud_gateways' = delete_gateway(cloud_gateways, w_config)
               /\ has_gateway' = FALSE
               /\ w_pc' = "identity"
               /\ UNCHANGED w_ret
            \/ /\ "id" \in w_config
               /\ w_ret' = "raised"
               /\ w_pc' = "done"
               /\ UNCHANGED <<cloud_targets, cloud_gateways, has_gateway>>
       ELSE /\ w_pc' = "identity"
            /\ UNCHANGED <<cloud_targets, cloud_gateways, has_gateway, w_ret>>
    /\ UNCHANGED <<w_force, w_config, w_file, identity_file>>
    /\ UNCHANGED outsideGateway

\* if not has_gateway: the identity configuration is loaded, or
\* FileNotFoundError is raised; with has_gateway the creation is skipped
GatewayLoadIdentity ==
    /\ w_pc = "identity"
    /\ IF ~has_gateway
       THEN IF identity_file
            THEN /\ w_pc' = "create_gateway"
                 /\ UNCHANGED w_ret
            ELSE /\ w_ret' = "raised"
                 /\ w_pc' = "done"
       ELSE /\ w_pc' = "return"
            /\ UNCHANGED w_ret
    /\ UNCHANGED <<w_force, w_config, w_file, has_gateway, identity_file,
                   cloud_gateways, cloud_targets>>
    /\ UNCHANGED outsideGateway

\* gateway_client.create_mcp_gateway(name="AWSCostEstimatorGateway", ...)
GatewayCreate ==
    /\ w_pc = "create_gateway"
    /\ \/ /\ cloud_gateways' = cloud_gateways \cup {"gateway_new"}
          /\ w_pc' = "create_target"
          /\ UNCHANGED w_ret
       \/ /\ w_ret' = "raised"
          /\ w_pc' = "done"
          /\ UNCHANGED cloud_gateways
    /\ UNCHANGED <<w_force, w_config, w_file, has_gateway, identity_file,
                   cloud_targets>>
    /\ UNCHANGED outsideGateway

\* the create request reads config["lambda_arn"] (KeyError without it);
\* control_client.create_gateway_target; save_config({"gateway": ...})
GatewayCreateTarget ==
    /\ w_pc = "create_target"
    /\ \/ /\ "lambda_arn" \in w_config
          /\ cloud_targets' = cloud_targets \cup {"target_new"}
          /\ w_file' = w_file \cup {"gateway"}
          /\ w_pc' = "return"
          /\ UNCHANGED w_ret
       \/ /\ w_ret' = "raised"
          /\ w_pc' = "done"
          /\ UNCHANGED <<cloud_targets, w_file>>
    /\ UNCHANGED <<w_force, w_config, has_gateway, identity_file,
                   cloud_gateways>>
    /\ UNCHANGED outsideGateway

\* config = load_config(); return config
GatewayReturn ==
    /\ w_pc = "return"
    /\ w_ret' = "config"
    /\ w_pc' = "done"
    /\ UNCHANGED <<w_force, w_config, w_file, has_gateway, identity_file,
                   cloud_gateways, cloud_targets>>
    /\ UNCHANGED outsideGateway

\* the gateway and target the account may hold before the call: a target
\* belongs to a gateway
CloudGatewayStates ==
    { <<{}, {}>>, <<{"gateway_old"}, {}>>, <<{"gateway_old"}, {"target_old"}>> }

InitGateway ==
    /\ w_pc = "begin"
    /\ w_force \in BOOLEAN
    /\ w_config \in SUBSET GatewayConfigKeys
    /\ w_file = w_config
    /\ has_gateway = FALSE
    /\ identity_file \in BOOLEAN
    /\ \E c \in CloudGatewayStates :
          /\ cloud_gateways = c[1]
          /\ cloud_targets = c[2]
    /\ w_ret = "none"
    /\ StreamIdle
    /\ DecodeIdle
    /\ TestIdle
    /\ InvokeIdle
    /\ RunsIdle
    /\ LifeIdle
    /\ MemoryIdle
    /\ HandlerIdle
    /\ RoleIdle
    /\ ProviderIdle
    /\ OidcIdle

NextGateway ==
    \/ GatewayBegin
    \/ GatewayDelete
    \/ GatewayLoadIdentity
    \/ GatewayCreate
    \/ GatewayCreateTarget
    \/ GatewayReturn

SpecGateway == InitGateway /\ [][NextGateway]_vars

\* C25: with force and a saved configuration holding "gateway", from the
\* moment the creation of the new gateway is reached the existing target
\* and the existing gateway are gone from the account.
C25_OldDeletedBeforeNew ==
    (/\ w_force
     /\ "gateway" \in w_config
     /\ \/ w_pc \in {"create_gateway", "create_target", "return"}
        \/ "gateway_new" \in cloud_gateways)
        => /\ "target_old" \notin cloud_targets
           /\ "gateway_old" \notin cloud_gateways

(***************************************************************************)
(* wait_for_oidc_endpoint (03_identity/setup_inbound_authorizer.py): the   *)
(* discovery endpoint is polled until it answers 200 with a JSON document  *)
(* holding 'issuer' or max_wait has passed.  Time is counted in whole      *)
(* units; a request takes none or one of them.                             *)
(***************************************************************************)

\* what one requests.get(oidc_url, timeout=10) may produce: a response, by
\* status and body, or an exception of requests (no connection, timeout)
OidcResponses ==
    {"200_issuer", "200_no_issuer", "200_not_json", "204", "404", "503",
     "connection_error"}

\* the statuses response.raise_for_status() raises HTTPError for
HttpErrorStatuses == {"404", "503"}

\* the values of the argument interval
Intervals == {1, 2}

\* the time one request may take
RequestTimes == {0, 1}

\* while time.time() - start_time < max_wait
OidcLoop ==
    /\ k_pc = "while"
    /\ k_pc' = IF k_elapsed < max_wait THEN "get" ELSE "end"
    /\ UNCHANGED <<max_wait, interval, k_elapsed, attempt, k_status, k_ret>>
    /\ UNCHANGED outsideOidc

\* response = requests.get(...); response.raise_for_status(); with status
\* 200, response.json() and the test for 'issuer': return True, or a
\* warning and on to the wait
OidcPoll ==
    /\ k_pc = "get"
    /\ \E resp \in OidcResponses, t \in RequestTimes :
          /\ k_status' = resp
          /\ k_elapsed' = k_elapsed + t
          /\ IF resp = "connection_error" \/ resp \in HttpErrorStatuses
             THEN /\ k_ret' = "raised"
                  /\ k_pc' = "done"
             ELSE IF resp = "200_issuer"
                  THEN /\ k_ret' = "True"
                       /\ k_pc' = "done"
                  ELSE /\ k_pc' = "wait"
                       /\ UNCHANGED k_ret
    /\ UNCHANGED <<max_wait, interval, attempt>>
    /\ UNCHANGED outsideOidc

\* remaining = max_wait - elapsed; if remaining > interval: sleep(interval),
\* attempt += 1; else: break
OidcWait ==
    /\ k_pc = "wait"
    /\ IF max_wait - k_elapsed > interval
       THEN /\ k_elapsed' = k_elapsed + interval
            /\ attempt' = attempt + 1
            /\ k_pc' = "while"
       ELSE /\ k_pc' = "end"
            /\ UNCHANGED <<k_elapsed, attempt>>
    /\ UNCHANGED <<max_wait, interval, k_status, k_ret>>
    /\ UNCHANGED outsideOidc

\* after the loop: the warning, return False
OidcEnd ==
    /\ k_pc = "end"
    /\ k_ret' = "False"
    /\ k_pc' = "done"
    /\ UNCHANGED <<max_wait, interval, k_elapsed, attempt, k_status>>
    /\ UNCHANGED outsideOidc

InitOidc ==
    /\ k_pc = "while"
    /\ max_wait \in 1..MaxWait
    /\ interval \in Intervals
    /\ k_elapsed = 0
    /\ attempt = 1
    /\ k_status = "none"
    /\ k_ret = "none"
    /\ StreamIdle
    /\ DecodeIdle
    /\ TestIdle
    /\ InvokeIdle
    /\ RunsIdle
    /\ LifeIdle
    /\ MemoryIdle
    /\ HandlerIdle
    /\ RoleIdle
    /\ ProviderIdle
    /\ GatewayIdle

NextOidc ==
    \/ OidcLoop
    \/ OidcPoll
    \/ OidcWait
    \/ OidcEnd

SpecOidc == InitOidc /\ [][NextOidc]_vars

\* C26: the wait never raises: it ends with True, on a poll answered 200
\* with a document holding 'issuer', or with False; a poll answered
\* otherwise, an HTTP error status included, leaves it polling or ends it
\* with False; and the polls are at most max_wait of them (the interval
\* being at least one unit).
C26_PollsUntilAvailable ==
    /\ k_ret # "raised"
    /\ k_ret = "True" => k_status = "200_issuer"
    /\ k_pc \in {"while", "get", "wait", "end", "done"} => attempt <= max_wait

====
